---- MODULE Spec2Model ----
(***************************************************************************)
(* A model of the brand-intelligence API's orchestration substrate:        *)
(*   - the browser pool and the scrapePage calls that lease its workers    *)
(*     (src/src/services/browser-pool.service.js, scraper.service.js);     *)
(*   - the LLM gateway's retry loop (utils/helpers.js retry,               *)
(*     services/openai.service.js);                                        *)
(*   - the two-tier scrape cache (services/cache.service.js);              *)
(*   - the run store and the four phase handlers (routes/stage1.routes.js, *)
(*     services/storage.service.js, db/models/runs.model.js) together with *)
(*     the request-timeout middleware and the validation of request bodies *)
(*     and URLs (utils/validation.js, utils/helpers.js);                   *)
(*   - scrapeWebsite's batched fetches (services/scraper.service.js),      *)
(*     alone and over the cache;                                           *)
(*   - the evidence check and the confidence gate of BrandSummary.         *)
(* Each subsystem has its own next-state relation and specification over   *)
(* the one set of variables; a subsystem's variables stay unchanged under  *)
(* the other specifications.                                               *)
(***************************************************************************)
EXTENDS Integers, Sequences, FiniteSets, TLC

\* ------------------------------------------------------------------ bounds
\* Number of browser workers the pool launches (config.scraping.browserPoolSize).
PoolSize == 2
\* Number of concurrent scrapePage calls.
NumFetches == 3
\* Number of distinct ScrapeResult bodies written for the URL.
NumBodies == 2
\* config.cache.scrapingTTL (86 400 s by default), in ticks.
TtlTicks == 2
\* The last tick of the clock.
MaxTime == 2
\* Number of HTTP requests in flight at once.
NumReqs == 1
\* The most URLs an answer cites as evidence.
MaxUrls == 2
\* Number of candidate URLs discoverPages returns.
NumCandidates == 3
\* config.scraping.concurrency (SCRAPING_CONCURRENCY): the size of a fetch batch.
Concurrency == 2

VARIABLES
  \* --- BrowserPool (browser-pool.service.js)
  initialized,        \* this.initialized
  browsers,           \* this.browsers: sequence of references into objs
  availableBrowsers,  \* this.availableBrowsers: sequence of worker ids (0-based)
  objs,               \* the heap of browser objects {id, inUse}; a reference is an index
  proc,               \* the server process: starting, serving, closed, exited
  \* --- scrapePage calls (scraper.service.js)
  pc,                 \* position of each scrapePage call
  browserObj,         \* the worker the call holds: its local browserObj from the
                      \* return of getBrowser until releaseBrowser(browserObj) has
                      \* run (0 = null, else a reference into objs)
  result,             \* what it returned: "none", "page" or "null"
  \* --- one LLM gateway call (openai.service.js, helpers.js retry)
  gwPc,               \* idle, request (provider request in flight), backoff, done
  gwEndpoint,         \* the endpoint tag of the call
  attempt,            \* retry's loop variable
  outcomes,           \* the provider's answer to each request of the call, in order
  lastError,          \* retry's lastError: the error callOpenAI threw last
  gwDelay,            \* the delay of the sleep in progress, in ms
  gwResult,           \* "none", "ok", or the code of the error the call threw
  apiCalls,           \* what the call has added to openai_api_calls_total
  \* --- two-tier cache of one URL (cache.service.js, redis.js, cache.model.js)
  redisStore,         \* fast tier: the body under scrape:<hash(url)>, 0 when absent
  pgStore,            \* durable tier: the content of the scraping_cache row, 0 when absent
  wPc,                \* each cacheScrapedContent / invalidate call: idle, start,
                      \* redisDone, pgDone
  wKind,              \* "put" or "invalidate"
  wBody,              \* the body a put writes
  wOverlap,           \* whether another write call was in flight during this one
  gPc,                \* each getScrapedContent call: idle, redisGet, pgGet, backfill, done
  dbData,             \* its local dbData
  gResult,            \* what it returned (0 = null)
  settled,            \* the body of the last put that returned, while no other put or
                      \* invalidate ran during it or began after it (0 = none)
  expect,             \* per get: settled as it was when the get began, while no put or
                      \* invalidate began during the get (0 = none)
  now,                \* the time, in ticks
  redisExp,           \* fast tier: the tick at which the key expires (SETEX ttl)
  redisBorn,          \* fast tier: the tick of the put whose body the key holds
  pgExp,              \* durable tier: expires_at of the row
  wOutcome,           \* per put / invalidate call: "none", "returned" or "threw"
  gOutcome,           \* per get call: "none", "returned" or "threw"
  gHit,               \* per get call: the tier whose cache_hits_total it incremented, or "none"
  gFailed,            \* per get call: "no", "fast" when redis.get failed and returned
                      \* null, "caught" when the catch block of the get ran
  gBorn,              \* per get call: the tick of the put whose body it obtained
  \* --- run store and phase handlers (runs.model.js, stage1.routes.js)
  runs,               \* the runs table: per run id, whether its row is present, and its slots
  phase,              \* per request: "none" or the route it invoked
  runId,              \* per request: the run_id of its body, or of the run it created
  brand_url,          \* per request: the brand_url of its body, or "none"
  brandData,          \* per request: the brandData its handler has built, or "none"
  hPc,                \* per request: the await its handler is at
  tasks,              \* per request and domain: where that domain's analysis is
  hErr,               \* per request: the code of the error its handler threw, or "none"
  response,           \* per request: what was sent: "none", "OK", or an error code
  calls,              \* per request: the service calls its handler has made
  \* --- one scrapeWebsite call at a time (scraper.service.js)
  sPc,                \* where the call is: idle, cacheGet, probe, fetch, cachePut, done
  validUrls,          \* the candidate URLs that survived the HEAD probe, in order
  batchAt,            \* scrapePages' loop index i, as a position in validUrls
  outcome,            \* per position of validUrls: what scrapePage(url) came to
  pages,              \* scrapePages' local pages
  sResult,            \* what the call returned or threw
  fetched,            \* the URLs scrapePage was called on, so a worker was asked for
  metric,             \* number of scraping_duration_ms observations recorded
  cachePut,           \* what the call passed to cacheScrapedContent: "none" or the pages
  \* --- evidence check and confidence gate of one brand-summary request
  evPc,               \* where the handler is: idle, validating, gate, save, done
  evUrls,             \* checkEvidenceRefs' urls
  allowedDomains,     \* checkEvidenceRefs' allowedDomains
  evResults,          \* per URL: what validateUrl returned, or Pending
  evidenceCheck,      \* what checkEvidenceRefs returned
  confidence,         \* brandAnalysis.confidence_0_1
  adjustedConfidence, \* the handler's adjustedConfidence
  brandSaved,         \* what saveBrand was called with, if it was
  evError,            \* "none", "OK" once the answer is sent, or the error thrown
  evDetails,          \* the details of the LowConfidenceError thrown
  headRequests        \* the URLs validateUrl has called fetch on

poolVars == <<initialized, browsers, availableBrowsers, objs, proc>>
fetchVars == <<pc, browserObj, result>>

gwVars == <<gwPc, gwEndpoint, attempt, outcomes, lastError, gwDelay, gwResult, apiCalls>>

cacheVars == <<redisStore, pgStore, wPc, wKind, wBody, wOverlap, gPc, dbData,
               gResult, settled, expect, now, redisExp, redisBorn, pgExp, wOutcome,
               gOutcome, gFailed, gBorn, gHit>>

phaseVars == <<runs, phase, runId, brand_url, brandData, hPc, tasks, hErr, response, calls>>

scrapeVars == <<sPc, validUrls, batchAt, outcome, pages, sResult, fetched, metric, cachePut>>

evidenceVars == <<evPc, evUrls, allowedDomains, evResults, evidenceCheck, confidence,
                  adjustedConfidence, brandSaved, evError, evDetails, headRequests>>

vars == <<poolVars, fetchVars, gwVars, cacheVars, phaseVars, scrapeVars, evidenceVars>>

Fetches == 1..NumFetches

\* The cacheScrapedContent / invalidate calls on the URL that can be in progress
\* at once.
Writers == {"w1", "w2"}

\* The caller whose write calls follow one another.
SerialWriters == {"w1"}

\* The getScrapedContent calls on the URL that can be in progress at once.
Gets == {"g1", "g2"}

Bodies == 1..NumBodies

\* The run identifiers createRun can generate and a request body can name.
RunIds == {"run_1"}

Reqs == 1..NumReqs

\* The competitor domains a request body can name.
Domains == {"a.com", "b.com", "a b"}

\* The candidate URLs discoverPages returns, in the order of commonPaths.
CandidateUrls == [k \in 1..NumCandidates |-> k]

\* What the text of a fetched page can be: its words, in order, as whitespace
\* separates them. The texts differ in one word of eleven, in one of five, in one
\* of six, and in case only.
Contents ==
  {<<"A", "a", "B", "b", "C", "c", "D", "d", "E", "e", "x">>,
   <<"A", "a", "B", "b", "C", "c", "D", "d", "E", "e", "y">>,
   <<"p", "q", "r", "s">>,
   <<"p", "q", "r", "s", "t">>,
   <<"p", "q", "r", "s", "t", "u">>,
   <<"P", "Q", "R", "S">>}

\* ---------------------------------------------------------------- helpers
poolSize == PoolSize

\* getStats(): total is the configured size, inUse is derived from the free list.
GetStats ==
  [ total       |-> poolSize,
    inUse       |-> poolSize - Len(availableBrowsers),
    available   |-> Len(availableBrowsers),
    initialized |-> initialized ]

\* availableBrowsers.shift(): the free list after its head was taken.
ShiftAvailable_Peek(avail) == avail

ShiftAvailable(avail) == Tail(avail)

\* this.browsers[browserId]: the reference stored at a 0-based index, 0 when undefined.
BrowserAt(browserId) ==
  IF browserId + 1 <= Len(browsers) THEN browsers[browserId + 1] ELSE 0

\* scrapePage's local context is non-null from the return of getContext on.
Context(f) == pc[f] \in {"newPage", "pageOps", "releaseContext"}

\* A scrapePage call holds a worker from the moment getBrowser returned it until its
\* finally block has released it.
Holds(f) == browserObj[f] # 0 /\ pc[f] # "done"

Holders == {f \in Fetches : Holds(f)}

InFlight(f) == pc[f] \notin {"idle", "done"}

\* ------------------------------------------------------------------- Init
PoolInitState ==
  /\ initialized = FALSE
  /\ browsers = <<>>
  /\ availableBrowsers = <<>>
  /\ objs = <<>>
  /\ proc = "starting"

FetchInitState ==
  /\ pc = [f \in Fetches |-> "idle"]
  /\ browserObj = [f \in Fetches |-> 0]
  /\ result = [f \in Fetches |-> "none"]

NoError == [code |-> "none", statusCode |-> 0]

GatewayInitState ==
  /\ gwPc = "idle"
  /\ gwEndpoint = "none"
  /\ attempt = 0
  /\ outcomes = <<>>
  /\ lastError = NoError
  /\ gwDelay = 0
  /\ gwResult = "none"
  /\ apiCalls = 0

CacheInitState ==
  /\ redisStore = 0
  /\ pgStore = 0
  /\ wPc = [w \in Writers |-> "idle"]
  /\ wKind = [w \in Writers |-> "put"]
  /\ wBody = [w \in Writers |-> 0]
  /\ wOverlap = [w \in Writers |-> FALSE]
  /\ gPc = [g \in Gets |-> "idle"]
  /\ dbData = [g \in Gets |-> 0]
  /\ gResult = [g \in Gets |-> 0]
  /\ settled = 0
  /\ expect = [g \in Gets |-> 0]
  /\ now = 0
  /\ redisExp = 0
  /\ redisBorn = 0
  /\ pgExp = 0
  /\ wOutcome = [w \in Writers |-> "none"]
  /\ gOutcome = [g \in Gets |-> "none"]
  /\ gFailed = [g \in Gets |-> "no"]
  /\ gHit = [g \in Gets |-> "none"]
  /\ gBorn = [g \in Gets |-> 0]

\* A run identifier with no row in the runs table. status is "none" for an
\* identifier that was never generated and "reaped" for one whose row was removed:
\* generateRunId never returns the same identifier twice.
NoRow ==
  [present |-> FALSE, status |-> "none", expired |-> FALSE, brand_data |-> "null", competitors_10 |-> "null",
   competitors_selected |-> "null", kernel_data |-> "null"]

\* No run has been created and no request has arrived.
PhaseInitState ==
  /\ runs = [id \in RunIds |-> NoRow]
  /\ phase = [r \in Reqs |-> "none"]
  /\ runId = [r \in Reqs |-> "none"]
  /\ brand_url = [r \in Reqs |-> "none"]
  /\ brandData = [r \in Reqs |-> "none"]
  /\ hPc = [r \in Reqs |-> "idle"]
  /\ tasks = [r \in Reqs |-> [d \in Domains |-> "none"]]
  /\ hErr = [r \in Reqs |-> "none"]
  /\ response = [r \in Reqs |-> "none"]
  /\ calls = [r \in Reqs |-> {}]

\* What scrapeWebsite has returned or thrown.
NoResult == [kind |-> "none", pages |-> <<>>, err |-> "none"]

\* No scrapeWebsite call has been made.
ScrapeInitState ==
  /\ sPc = "idle"
  /\ validUrls = <<>>
  /\ batchAt = 1
  /\ outcome = <<>>
  /\ pages = <<>>
  /\ sResult = NoResult
  /\ fetched = {}
  /\ metric = 0
  /\ cachePut = "none"

\* ------------------------------------------- evidence check and confidence gate
\* Numbers are exact fractions <<numerator, denominator>> with a positive
\* denominator; <<0, 0>> stands for NaN, which confidence_0_1 of an answer
\* without that field becomes in the subtraction.
NaN == <<0, 0>>

IsNaN(x) == x[2] = 0

Rat(n, d) == <<n, d>>

\* a < b, a === b and a - b on numbers: every comparison with NaN is false and
\* every difference with NaN is NaN.
RatLess(a, b) == ~IsNaN(a) /\ ~IsNaN(b) /\ a[1] * b[2] < b[1] * a[2]

RatEq(a, b) == ~IsNaN(a) /\ ~IsNaN(b) /\ a[1] * b[2] = b[1] * a[2]

RatSub(a, b) ==
  IF IsNaN(a) \/ IsNaN(b) THEN NaN ELSE <<a[1] * b[2] - b[1] * a[2], a[2] * b[2]>>

RatMul(a, b) == IF IsNaN(a) \/ IsNaN(b) THEN NaN ELSE <<a[1] * b[1], a[2] * b[2]>>

\* Math.min(a, b) and Math.max(a, b): NaN when an argument is NaN.
MathMin(a, b) == IF IsNaN(a) \/ IsNaN(b) THEN NaN ELSE IF RatLess(b, a) THEN b ELSE a

MathMax(a, b) == IF IsNaN(a) \/ IsNaN(b) THEN NaN ELSE IF RatLess(a, b) THEN b ELSE a

\* The URLs an answer can cite, and evidence_refs when it is an array: a list of
\* at most MaxUrls of them.
Urls == {"https://a.com/p", "https://www.a.com/p", "https://b.com/p", "not a url"}

RECURSIVE UrlLists(_)
UrlLists(n) ==
  IF n = 0 THEN {<<>>}
  ELSE UrlLists(n - 1) \cup {Append(l, u) : l \in {m \in UrlLists(n - 1) : Len(m) = n - 1}, u \in Urls}

EvidenceRefs == UrlLists(MaxUrls)

\* confidence_0_1 of the answer: absent, or a number of [0, 1].
Confidences ==
  {NaN, Rat(0, 1), Rat(599, 1000), Rat(6, 10), Rat(3, 4), Rat(9, 10), Rat(1, 1)}

\* new URL(url).hostname.replace(/^www\./, ''), or null when URL throws.
ExtractDomain(url) ==
  CASE url = "https://a.com/p" -> "a.com"
    [] url = "https://www.a.com/p" -> "a.com"
    [] url = "https://b.com/p" -> "b.com"
    [] OTHER -> "null"

\* What the HEAD request of validateUrl comes to: a 2xx answer from an allowed
\* domain, a redirect that ends on another domain, a non-2xx status, or fetch throws.
FetchOutcomes == {"ok", "redirected", "status", "threw"}

Pending == [valid |-> FALSE, url |-> "", reason |-> "pending"]

\* allowedDomains.includes(extractDomain(url)): the domain check that validateUrl
\* makes before its fetch.
AllowedDomainsIncludes_Any(url, allowed) == TRUE

AllowedDomainsIncludes(url, allowed) == ExtractDomain(url) \in allowed

\* validateUrl(url, allowedDomains) when its fetch, if it makes one, comes to fo.
ValidateUrlResult(url, allowed, fo) ==
  IF ~AllowedDomainsIncludes(url, allowed)
    THEN [valid |-> FALSE, url |-> url, reason |-> "Domain not in allowed list"]
    ELSE CASE fo = "ok" -> [valid |-> TRUE, url |-> url, reason |-> ""]
           [] fo = "redirected" ->
                [valid |-> FALSE, url |-> url, reason |-> "Redirected to different domain"]
           [] fo = "status" -> [valid |-> FALSE, url |-> url, reason |-> "HTTP status"]
           [] fo = "threw" -> [valid |-> FALSE, url |-> url, reason |-> "error.message"]

IsValid(r) == r.valid

IsInvalid(r) == ~r.valid

\* results.filter(r => r.valid).map(r => r.url)
ValidOf(rs) ==
  LET v == SelectSeq(rs, IsValid) IN [i \in 1..Len(v) |-> v[i].url]

\* results.filter(r => !r.valid).map(r => ({ url: r.url, reason: r.reason }))
InvalidOf(rs) ==
  LET v == SelectSeq(rs, IsInvalid) IN [i \in 1..Len(v) |-> [url |-> v[i].url, reason |-> v[i].reason]]

\* calculateConfidencePenalty(invalidCount, totalCount)
CalculateConfidencePenalty_NoScale(invalidCount, totalCount) ==
  IF totalCount = 0 THEN Rat(0, 1)
  ELSE MathMin(Rat(invalidCount, totalCount), Rat(3, 10))

CalculateConfidencePenalty_Floor(invalidCount, totalCount) ==
  IF totalCount = 0 THEN Rat(0, 1)
  ELSE MathMin(RatMul(Rat(invalidCount \div totalCount, 1), Rat(3, 10)), Rat(3, 10))

CalculateConfidencePenalty(invalidCount, totalCount) ==
  IF totalCount = 0 THEN Rat(0, 1)
  ELSE MathMin(RatMul(Rat(invalidCount, totalCount), Rat(3, 10)), Rat(3, 10))

\* What checkEvidenceRefs returns for an empty or missing list.
NoEvidence == [valid |-> <<>>, invalid |-> <<>>, confidence_penalty |-> Rat(0, 1)]

\* adjustedConfidence < 0.6
LowConfidence_Inclusive(adjusted) == ~RatLess(Rat(6, 10), adjusted)

LowConfidence(adjusted) == RatLess(adjusted, Rat(6, 10))

NotSaved == [saved |-> FALSE, confidence_0_1 |-> NaN]

NoDetails == [set |-> FALSE, confidence |-> NaN, invalidEvidence |-> <<>>]

EvidenceInitState ==
  /\ evPc = "idle"
  /\ evUrls = <<>>
  /\ allowedDomains = {}
  /\ evResults = <<>>
  /\ evidenceCheck = NoEvidence
  /\ confidence = NaN
  /\ adjustedConfidence = NaN
  /\ brandSaved = NotSaved
  /\ evError = "none"
  /\ evDetails = NoDetails
  /\ headRequests = {}

Init ==
  /\ PoolInitState
  /\ FetchInitState
  /\ GatewayInitState
  /\ CacheInitState
  /\ PhaseInitState
  /\ ScrapeInitState
  /\ EvidenceInitState

\* ------------------------------------------------------------ BrowserPool
\* init() launching the first k workers: each launch pushes {id: i, inUse: false}
\* onto browsers and i onto availableBrowsers.
Launched(k) ==
  /\ objs' = objs \o [i \in 1..k |-> [id |-> i - 1, inUse |-> FALSE]]
  /\ browsers' = browsers \o [i \in 1..k |-> Len(objs) + i]
  /\ availableBrowsers' = availableBrowsers \o [i \in 1..k |-> i - 1]

\* start(): await browserPool.init() with every launch succeeding.
PoolInit ==
  /\ UNCHANGED <<gwVars, cacheVars, phaseVars, scrapeVars, evidenceVars>>
  /\ proc = "starting"
  /\ ~initialized
  /\ Launched(poolSize)
  /\ initialized' = TRUE
  /\ proc' = "serving"
  /\ UNCHANGED fetchVars

\* start(): a launch fails after k workers were launched; init rethrows and
\* start() exits the process.
PoolInitFail ==
  /\ UNCHANGED <<gwVars, cacheVars, phaseVars, scrapeVars, evidenceVars>>
  /\ proc = "starting"
  /\ ~initialized
  /\ \E k \in 0..(poolSize - 1) : Launched(k)
  /\ proc' = "exited"
  /\ UNCHANGED <<initialized, fetchVars>>

\* close(), called by the shutdown handler. Its loop awaits browser.close() for each
\* worker and changes no field of the pool, so the calls that run meanwhile see the
\* pool as before close(); the reset after the loop is the one step that changes it.
\* The process exits afterwards; until then the scrapes still in flight go on.
PoolClose ==
  /\ UNCHANGED <<gwVars, cacheVars, phaseVars, scrapeVars, evidenceVars>>
  /\ proc = "serving"
  /\ initialized
  /\ browsers' = <<>>
  /\ availableBrowsers' = <<>>
  /\ initialized' = FALSE
  /\ proc' = "closed"
  /\ UNCHANGED <<objs, fetchVars>>

\* The tail of getBrowser for call f once the free list is non-empty: shift the id,
\* look the object up, mark it in use, return it. An id with no object behind it makes
\* browserObj.inUse = true throw, which scrapePage catches (context is still null).
TakeBrowser(f) ==
  LET browserId == Head(availableBrowsers)
      ref == BrowserAt(browserId)
  IN /\ availableBrowsers' = ShiftAvailable(availableBrowsers)
     /\ IF ref # 0
          THEN /\ objs' = [objs EXCEPT ![ref].inUse = TRUE]
               /\ browserObj' = [browserObj EXCEPT ![f] = ref]
               /\ pc' = [pc EXCEPT ![f] = "getContext"]
               /\ result' = [result EXCEPT ![f] = "none"]
          ELSE /\ objs' = objs
               /\ browserObj' = [browserObj EXCEPT ![f] = 0]
               /\ pc' = [pc EXCEPT ![f] = "done"]
               /\ result' = [result EXCEPT ![f] = "null"]

\* releaseBrowser(browserObj)
ReleaseBrowser(ref) ==
  IF ref = 0 \/ objs[ref].inUse = FALSE
    THEN UNCHANGED <<objs, availableBrowsers>>
    ELSE /\ objs' = [objs EXCEPT ![ref].inUse = FALSE]
         /\ availableBrowsers' = Append(availableBrowsers, objs[ref].id)

\* ------------------------------------------------------------- scrapePage
\* scrapePage(url) is called and runs to its first suspension inside getBrowser.
ScrapePageCall(f) ==
  /\ UNCHANGED <<gwVars, cacheVars, phaseVars, scrapeVars, evidenceVars>>
  /\ pc[f] \in {"idle", "done"}
  /\ proc \in {"serving", "closed"}
  /\ UNCHANGED <<initialized, browsers, proc>>
  /\ \/ /\ ~initialized                         \* throw 'Browser pool not initialized'
        /\ browserObj' = [browserObj EXCEPT ![f] = 0]
        /\ pc' = [pc EXCEPT ![f] = "done"]
        /\ result' = [result EXCEPT ![f] = "null"]
        /\ UNCHANGED <<objs, availableBrowsers>>
     \/ /\ initialized
        /\ availableBrowsers # <<>>
        /\ TakeBrowser(f)
     \/ /\ initialized
        /\ availableBrowsers = <<>>
        /\ browserObj' = [browserObj EXCEPT ![f] = 0]
        /\ pc' = [pc EXCEPT ![f] = "waiting"]
        /\ result' = [result EXCEPT ![f] = "none"]
        /\ UNCHANGED <<objs, availableBrowsers>>

\* getBrowser's polling loop wakes up: it takes a worker if the free list is not
\* empty, and otherwise may have run past its timeout.
GetBrowserPoll_NoTimeout(f) ==
  /\ UNCHANGED <<gwVars, cacheVars, phaseVars, scrapeVars, evidenceVars>>
  /\ pc[f] = "waiting"
  /\ UNCHANGED <<initialized, browsers, proc>>
  /\ availableBrowsers # <<>>
  /\ TakeBrowser(f)

GetBrowserPoll(f) ==
  /\ UNCHANGED <<gwVars, cacheVars, phaseVars, scrapeVars, evidenceVars>>
  /\ pc[f] = "waiting"
  /\ UNCHANGED <<initialized, browsers, proc>>
  /\ \/ /\ availableBrowsers # <<>>
        /\ TakeBrowser(f)
     \/ /\ availableBrowsers = <<>>             \* 'Timeout waiting for available browser'
        /\ pc' = [pc EXCEPT ![f] = "done"]
        /\ result' = [result EXCEPT ![f] = "null"]
        /\ UNCHANGED <<objs, availableBrowsers, browserObj>>

\* context = await browserPool.getContext(browserObj): on failure the catch returns
\* null and the finally block finds context null, so it releases nothing and the
\* call returns still holding browserObj.
GetContext(f) ==
  /\ UNCHANGED <<gwVars, cacheVars, phaseVars, scrapeVars, evidenceVars>>
  /\ pc[f] = "getContext"
  /\ UNCHANGED <<poolVars, browserObj>>
  /\ \/ /\ pc' = [pc EXCEPT ![f] = "newPage"]
        /\ UNCHANGED result
     \/ /\ pc' = [pc EXCEPT ![f] = "done"]
        /\ result' = [result EXCEPT ![f] = "null"]

\* page = await context.newPage()
NewPage(f) ==
  /\ UNCHANGED <<gwVars, cacheVars, phaseVars, scrapeVars, evidenceVars>>
  /\ pc[f] = "newPage"
  /\ UNCHANGED <<poolVars, browserObj>>
  /\ \/ /\ pc' = [pc EXCEPT ![f] = "pageOps"]
        /\ UNCHANGED result
     \/ /\ pc' = [pc EXCEPT ![f] = "releaseContext"]
        /\ result' = [result EXCEPT ![f] = "null"]

\* page.goto, page.evaluate, page.title, page.close: all succeed, or one of them
\* throws (navigation failure, page-load timeout).
PageOps(f) ==
  /\ UNCHANGED <<gwVars, cacheVars, phaseVars, scrapeVars, evidenceVars>>
  /\ pc[f] = "pageOps"
  /\ UNCHANGED <<poolVars, browserObj>>
  /\ pc' = [pc EXCEPT ![f] = "releaseContext"]
  /\ \E r \in {"page", "null"} : result' = [result EXCEPT ![f] = r]

\* finally: context && browserObj, so releaseContext closes the context (an error
\* there is logged) and calls releaseBrowser; the call then returns.
ReleaseContext(f) ==
  /\ UNCHANGED <<gwVars, cacheVars, phaseVars, scrapeVars, evidenceVars>>
  /\ pc[f] = "releaseContext"
  /\ Context(f) /\ browserObj[f] # 0
  /\ ReleaseBrowser(browserObj[f])
  /\ browserObj' = [browserObj EXCEPT ![f] = 0]
  /\ pc' = [pc EXCEPT ![f] = "done"]
  /\ UNCHANGED <<initialized, browsers, proc, result>>

NextPool ==
  \/ PoolInit
  \/ PoolInitFail
  \/ PoolClose
  \/ \E f \in Fetches : ScrapePageCall(f)
  \/ \E f \in Fetches : GetBrowserPoll(f)
  \/ \E f \in Fetches : GetContext(f)
  \/ \E f \in Fetches : NewPage(f)
  \/ \E f \in Fetches : PageOps(f)
  \/ \E f \in Fetches : ReleaseContext(f)

SpecPool == Init /\ [][NextPool]_vars

\* One step of a scrapePage call after it was made; pc[f] enables at most one of
\* the five.
CallStep(f) ==
  \/ GetBrowserPoll(f)
  \/ GetContext(f)
  \/ NewPage(f)
  \/ PageOps(f)
  \/ ReleaseContext(f)

\* The timer of the polling loop fires, and each Playwright operation of a call
\* terminates.
FairPool == \A f \in Fetches : WF_vars(CallStep(f))

SpecPoolFair == SpecPool /\ FairPool

\* ------------------------------------------------- claims on the BrowserPool
\* Number of worker objects of the pool marked in use, and the free-list length.
Leased == Cardinality({i \in 1..Len(browsers) : objs[browsers[i]].inUse})

Free == Len(availableBrowsers)

\* C1: from init() to close() and for every interleaving of the scrapes' getBrowser
\* and releaseContext calls, no two calls hold the same worker at the same time and
\* at most poolSize calls hold a worker.
C1_ExclusiveLease ==
  /\ \A f, g \in Fetches :
       (f # g /\ Holds(f) /\ Holds(g)) => browserObj[f] # browserObj[g]
  /\ Cardinality(Holders) <= poolSize

\* C1 witness: the pool is initialized, every worker is held and another call waits
\* in getBrowser.
C1_Witness ==
  /\ initialized
  /\ Cardinality(Holders) = poolSize
  /\ \E f \in Fetches : pc[f] = "waiting"

\* C2: every scrapePage call that obtained a worker has released it when it returns,
\* on every exit path; so with no page fetch in flight all poolSize workers are free.
C2_LeaseReleasedOnReturn ==
  /\ \A f \in Fetches : pc[f] = "done" => browserObj[f] = 0
  /\ (initialized /\ \A f \in Fetches : ~InFlight(f)) => Free = poolSize

\* C7: after any sequence of init, getBrowser, release and close calls, leased + free
\* equals the pool total, getStats reports 0 <= inUse <= total and
\* inUse + available = total, and after close() the total is 0.
C7_PoolAccounting ==
  (proc \in {"serving", "closed"}) =>
    /\ GetStats.inUse >= 0
    /\ GetStats.inUse <= GetStats.total
    /\ GetStats.inUse + GetStats.available = GetStats.total
    /\ Leased + Free = GetStats.total
    /\ (proc = "closed" => GetStats.total = 0)

\* C20: among the calls blocked in getBrowser, workers are granted in arrival order:
\* a call that enters getBrowser while another call is already waiting there is not
\* handed a worker ahead of it, also when it enters just after a release.
C20_ArrivalOrder ==
  [][\A f, g \in Fetches :
       (f # g /\ pc[g] = "waiting" /\ pc[f] \in {"idle", "done"})
       => ~(pc'[f] = "getContext" /\ pc'[g] = "waiting")]_vars

\* C21: close() called while calls are blocked in getBrowser fails each of them:
\* in the step in which close() resets the pool, every call that was waiting has
\* ended with an error and holds no worker.
C21_CloseFailsWaiters ==
  [][\A f \in Fetches :
       (pc[f] = "waiting" /\ initialized /\ ~initialized')
       => (pc'[f] = "done" /\ result'[f] = "null" /\ browserObj'[f] = 0)]_vars

\* C22: when a launch fails during init(), init fails with the workers launched
\* earlier in that call torn down: the pool holds no worker and no free id.
C22_FailedInitTornDown ==
  (proc = "exited" /\ ~initialized) =>
    (browsers = <<>> /\ availableBrowsers = <<>>)

\* C37: with more concurrent fetches than workers, every scrapePage call returns,
\* so every batch and every scrapeWebsite call ends: a call that waits for a
\* worker gets one or gives up at its timeout.
C37_EveryFetchReturns ==
  \A f \in Fetches : (pc[f] \notin {"idle", "done"}) ~> (pc[f] = "done")

\* C37 witness: every worker is held and a further call waits in getBrowser.
C37_Witness ==
  /\ NumFetches > PoolSize
  /\ Cardinality(Holders) = PoolSize
  /\ availableBrowsers = <<>>
  /\ \E f \in Fetches : pc[f] = "waiting"

\* ------------------------------------------------------------ LLM gateway
\* analyzeBrand, findCompetitors, analyzeCompetitor and assembleKernel all run
\* retry(() => callOpenAI(tag, prompt), 3, 2000).
Endpoints == {"brand-analysis", "competitors-discovery", "competitor-analysis",
              "kernel-assembly"}

maxAttempts == 3

baseDelay == 2000

\* What openai.chat.completions.create and the parse of its content can do:
\* ok (a JSON object), badjson (content JSON.parse rejects), timeout (an error with
\* code ECONNABORTED or 'timeout' in its message), an HTTP status error, or any
\* other failure.
ProviderOutcomes == {"ok", "badjson", "timeout", "http401", "http429", "http4xx",
                     "http5xx", "network"}

\* callOpenAI's catch block: the error it throws for a failed request.
CallOpenAIError_NoTimeout(o) == [code |-> "OPENAI_ERROR", statusCode |-> 503]

CallOpenAIError(o) ==
  CASE o = "timeout" -> [code |-> "OPENAI_TIMEOUT", statusCode |-> 504]
    [] o = "http401" -> [code |-> "OPENAI_ERROR", statusCode |-> 503]
    [] o = "http429" -> [code |-> "OPENAI_ERROR", statusCode |-> 503]
    [] OTHER         -> [code |-> "OPENAI_ERROR", statusCode |-> 503]

\* retry: "Don't retry on client errors (4xx)", tested on the thrown error.
IsClientError(error) ==
  error.statusCode # 0 /\ error.statusCode >= 400 /\ error.statusCode < 500

\* retry: attempt < maxAttempts, the test before the sleep.
MoreAttempts_OffByOne(a) == a <= maxAttempts

MoreAttempts(a) == a < maxAttempts

\* retry: baseDelay * Math.pow(2, attempt - 1)
Delay(a) == baseDelay * (2 ^ (a - 1))

\* recordOpenAICall(model, endpoint, status): openaiCalls.labels(...).inc(), run
\* by the gateway method when retry has returned or thrown.
RecordOpenAICall(n) == n + 1

\* Provider requests issued so far by the call.
Requests == Len(outcomes) + (IF gwPc = "request" THEN 1 ELSE 0)

\* A gateway method is called: retry enters its loop and callOpenAI issues the
\* first request.
GatewayCall ==
  /\ gwPc \in {"idle", "done"}
  /\ \E tag \in Endpoints : gwEndpoint' = tag
  /\ attempt' = 1
  /\ outcomes' = <<>>
  /\ lastError' = NoError
  /\ gwDelay' = 0
  /\ gwResult' = "none"
  /\ apiCalls' = 0
  /\ gwPc' = "request"
  /\ UNCHANGED <<poolVars, fetchVars, cacheVars, phaseVars, scrapeVars, evidenceVars>>

\* The request of the current attempt completes with outcome o; callOpenAI returns
\* the parsed object or throws, and retry returns, rethrows, sleeps or gives up.
ProviderRespond ==
  /\ gwPc = "request"
  /\ UNCHANGED <<poolVars, fetchVars, cacheVars, phaseVars, scrapeVars, evidenceVars>>
  /\ UNCHANGED <<gwEndpoint, attempt>>
  /\ \E o \in ProviderOutcomes :
       /\ outcomes' = Append(outcomes, o)
       /\ IF o = "ok"
            THEN /\ gwPc' = "done"
                 /\ gwResult' = "ok"
                 /\ apiCalls' = RecordOpenAICall(apiCalls)
                 /\ UNCHANGED <<lastError, gwDelay>>
            ELSE LET error == CallOpenAIError(o) IN
                 /\ lastError' = error
                 /\ IF IsClientError(error)
                      THEN /\ gwPc' = "done"
                           /\ gwResult' = error.code
                           /\ apiCalls' = RecordOpenAICall(apiCalls)
                           /\ UNCHANGED gwDelay
                      ELSE IF MoreAttempts(attempt)
                        THEN /\ gwPc' = "backoff"
                             /\ gwDelay' = Delay(attempt)
                             /\ UNCHANGED <<gwResult, apiCalls>>
                        ELSE /\ gwPc' = "done"
                             /\ gwResult' = error.code
                             /\ apiCalls' = RecordOpenAICall(apiCalls)
                             /\ UNCHANGED gwDelay

\* The sleep ends: the loop's next iteration issues the next request.
BackoffElapsed ==
  /\ gwPc = "backoff"
  /\ attempt' = attempt + 1
  /\ gwPc' = "request"
  /\ gwDelay' = 0
  /\ UNCHANGED <<poolVars, fetchVars, cacheVars, phaseVars, scrapeVars, evidenceVars>>
  /\ UNCHANGED <<gwEndpoint, outcomes, lastError, gwResult, apiCalls>>

NextGateway ==
  \/ GatewayCall
  \/ ProviderRespond
  \/ BackoffElapsed

SpecGateway == Init /\ [][NextGateway]_vars

C8_NoRetryOnClientError ==
  \A i \in 1..Len(outcomes) :
    outcomes[i] \in {"http401", "http4xx"} => (i = Len(outcomes) /\ gwPc = "done")

\* --------------------------------------------------------- two-tier cache
\* All calls are on one URL, so on one key scrape:<sha256(url)> and one row.
WriteInFlight(w) == wPc[w] # "idle"

\* What a write call leaves in a tier: the body for a put, nothing for an invalidate.
Written(w) == IF wKind[w] = "put" THEN wBody[w] ELSE 0

\* The key is in the fast tier: it was set and its SETEX time has not run out.
FastLive == redisStore # 0 /\ redisExp > now

\* The row is selected by WHERE url_hash = $1 AND expires_at > NOW().
DurableLive == pgStore # 0 /\ pgExp > now

\* The try/catch of getScrapedContent, cacheScrapedContent and invalidate: an
\* error of a tier is logged and the call returns.
CacheCatch_Rethrow(failed) == IF failed THEN "threw" ELSE "returned"

CacheCatch(failed) == "returned"

\* A put or invalidate call begins: Promise.all starts the fast-tier and the
\* durable-tier operation together.
WriteCall(w, kind, body) ==
  /\ wPc[w] = "idle"
  /\ wPc' = [wPc EXCEPT ![w] = "start"]
  /\ wKind' = [wKind EXCEPT ![w] = kind]
  /\ wBody' = [wBody EXCEPT ![w] = body]
  /\ wOutcome' = [wOutcome EXCEPT ![w] = "none"]
  /\ wOverlap' = [x \in Writers |->
                    IF x = w THEN \E y \in Writers : y # w /\ WriteInFlight(y)
                    ELSE wOverlap[x] \/ WriteInFlight(x)]
  /\ settled' = 0
  /\ expect' = [g \in Gets |-> 0]
  /\ UNCHANGED <<redisStore, pgStore, gPc, dbData, gResult, now, redisExp, redisBorn,
                 pgExp, gOutcome, gFailed, gBorn, gHit>>
  /\ UNCHANGED <<poolVars, fetchVars, gwVars, phaseVars, scrapeVars, evidenceVars>>

\* cacheScrapedContent(url, data)
CacheScrapedContent(w) == \E body \in Bodies : WriteCall(w, "put", body)

\* invalidate(url)
Invalidate(w) == WriteCall(w, "invalidate", 0)

\* The call returns once both operations have completed.
WriteReturn(w) ==
  /\ settled' = IF wKind[w] = "put" /\ ~wOverlap[w] THEN wBody[w] ELSE settled
  /\ wOutcome' = [wOutcome EXCEPT ![w] = CacheCatch(FALSE)]

\* An operation of the call rejects: Promise.all rejects at once, the catch block
\* logs and the call returns, whatever the other operation is doing.
WriteFailed(w) ==
  /\ wOutcome' = [wOutcome EXCEPT ![w] = IF @ = "none" THEN CacheCatch(TRUE) ELSE @]
  /\ UNCHANGED settled

\* The step of a write call after one of its two operations has ended; other is
\* what the call is at when only the other operation is still running.
WriteNext(w, other, failed) ==
  IF wPc[w] = "start"
    THEN /\ wPc' = [wPc EXCEPT ![w] = other]
         /\ IF failed THEN WriteFailed(w) ELSE UNCHANGED <<settled, wOutcome>>
    ELSE /\ wPc' = [wPc EXCEPT ![w] = "idle"]
         /\ IF failed THEN WriteFailed(w)
            ELSE IF wOutcome[w] = "none" THEN WriteReturn(w)
            ELSE UNCHANGED <<settled, wOutcome>>

\* redis.set(cacheKey, data, ttl) or redis.del(cacheKey) of call w takes effect.
FastTakesEffect(w) ==
  /\ redisStore' = Written(w)
  /\ redisExp' = now + TtlTicks
  /\ redisBorn' = now
  /\ WriteNext(w, "redisDone", FALSE)

\* setCachedScraping's INSERT ... ON CONFLICT DO UPDATE, or invalidateCache's DELETE,
\* of call w takes effect.
DurableTakesEffect(w) ==
  /\ pgStore' = Written(w)
  /\ pgExp' = now + TtlTicks
  /\ WriteNext(w, "pgDone", FALSE)

\* redis.set(cacheKey, data, ttl) or redis.del(cacheKey) of call w takes effect, or
\* fails and throws.
WriteFast(w) ==
  /\ wPc[w] \in {"start", "pgDone"}
  /\ \/ FastTakesEffect(w)
     \/ /\ UNCHANGED <<redisStore, redisExp, redisBorn>>
        /\ WriteNext(w, "redisDone", TRUE)
  /\ UNCHANGED <<pgStore, wKind, wBody, wOverlap, gPc, dbData, gResult, expect, now,
                 pgExp, gOutcome, gFailed, gBorn, gHit>>
  /\ UNCHANGED <<poolVars, fetchVars, gwVars, phaseVars, scrapeVars, evidenceVars>>

\* setCachedScraping's INSERT ... ON CONFLICT DO UPDATE, or invalidateCache's DELETE,
\* of call w takes effect, or the query fails.
WriteDurable(w) ==
  /\ wPc[w] \in {"start", "redisDone"}
  /\ \/ DurableTakesEffect(w)
     \/ /\ UNCHANGED <<pgStore, pgExp>>
        /\ WriteNext(w, "pgDone", TRUE)
  /\ UNCHANGED <<redisStore, wKind, wBody, wOverlap, gPc, dbData, gResult, expect,
                 now, redisExp, redisBorn, gOutcome, gFailed, gBorn, gHit>>
  /\ UNCHANGED <<poolVars, fetchVars, gwVars, phaseVars, scrapeVars, evidenceVars>>

\* getScrapedContent(url) is called.
GetScrapedContentCall(g) ==
  /\ gPc[g] \in {"idle", "done"}
  /\ gPc' = [gPc EXCEPT ![g] = "redisGet"]
  /\ dbData' = [dbData EXCEPT ![g] = 0]
  /\ gResult' = [gResult EXCEPT ![g] = 0]
  /\ expect' = [expect EXCEPT ![g] = settled]
  /\ gOutcome' = [gOutcome EXCEPT ![g] = "none"]
  /\ gFailed' = [gFailed EXCEPT ![g] = "no"]
  /\ gBorn' = [gBorn EXCEPT ![g] = 0]
  /\ gHit' = [gHit EXCEPT ![g] = "none"]
  /\ UNCHANGED <<redisStore, pgStore, wPc, wKind, wBody, wOverlap, settled, now,
                 redisExp, redisBorn, pgExp, wOutcome>>

GetCall(g) ==
  /\ GetScrapedContentCall(g)
  /\ UNCHANGED <<poolVars, fetchVars, gwVars, phaseVars, scrapeVars, evidenceVars>>

\* The get returns data (0 for null) after its catch block ran or not.
GetReturn(g, data, born, failed, hit) ==
  /\ gPc' = [gPc EXCEPT ![g] = "done"]
  /\ gResult' = [gResult EXCEPT ![g] = data]
  /\ gBorn' = [gBorn EXCEPT ![g] = born]
  /\ gFailed' = [gFailed EXCEPT ![g] = IF failed THEN "caught" ELSE @]
  /\ gHit' = [gHit EXCEPT ![g] = hit]
  /\ gOutcome' = [gOutcome EXCEPT ![g] = CacheCatch(failed)]

\* redisData = await redis.get(cacheKey): a hit returns it; a miss, or a failure
\* of the fast tier (redis.get then returns null), goes on to the durable tier.
GetFast(g) ==
  /\ gPc[g] = "redisGet"
  /\ \/ /\ FastLive
        /\ GetReturn(g, redisStore, redisBorn, FALSE, "redis")
     \/ /\ ~FastLive
        /\ gPc' = [gPc EXCEPT ![g] = "pgGet"]
        /\ UNCHANGED <<gResult, gBorn, gFailed, gOutcome, gHit>>
     \/ /\ gPc' = [gPc EXCEPT ![g] = "pgGet"]
        /\ gFailed' = [gFailed EXCEPT ![g] = "fast"]
        /\ UNCHANGED <<gResult, gBorn, gOutcome, gHit>>
  /\ UNCHANGED <<redisStore, pgStore, wPc, wKind, wBody, wOverlap, dbData, settled,
                 expect, now, redisExp, redisBorn, pgExp, wOutcome>>
  /\ UNCHANGED <<poolVars, fetchVars, gwVars, phaseVars, scrapeVars, evidenceVars>>

\* dbData = await cacheModel.getCachedScraping(url): a row starts the backfill, no
\* row is a miss of both tiers, a failed query ends in the catch block.
GetDurable(g) ==
  /\ gPc[g] = "pgGet"
  /\ \/ /\ DurableLive
        /\ gPc' = [gPc EXCEPT ![g] = "backfill"]
        /\ dbData' = [dbData EXCEPT ![g] = pgStore]
        /\ gBorn' = [gBorn EXCEPT ![g] = pgExp - TtlTicks]
        /\ gHit' = [gHit EXCEPT ![g] = "postgres"]
        /\ UNCHANGED <<gResult, gFailed, gOutcome>>
     \/ /\ ~DurableLive
        /\ GetReturn(g, 0, 0, FALSE, gHit[g])
        /\ UNCHANGED dbData
     \/ /\ GetReturn(g, 0, 0, TRUE, gHit[g])
        /\ UNCHANGED dbData
  /\ UNCHANGED <<redisStore, pgStore, wPc, wKind, wBody, wOverlap, settled, expect,
                 now, redisExp, redisBorn, pgExp, wOutcome>>
  /\ UNCHANGED <<poolVars, fetchVars, gwVars, phaseVars, scrapeVars, evidenceVars>>

\* The fast-tier write of the backfill: what it stores is dbData.
BackfillBody(g) == dbData[g]

\* await redis.set(cacheKey, dbData, ttl); return dbData. When redis.set throws,
\* the catch block returns null.
Backfill(g) ==
  /\ gPc[g] = "backfill"
  /\ \/ /\ redisStore' = BackfillBody(g)
        /\ redisExp' = now + TtlTicks
        /\ redisBorn' = gBorn[g]
        /\ GetReturn(g, dbData[g], gBorn[g], FALSE, gHit[g])
     \/ /\ UNCHANGED <<redisStore, redisExp, redisBorn>>
        /\ GetReturn(g, 0, 0, TRUE, gHit[g])
  /\ UNCHANGED <<pgStore, wPc, wKind, wBody, wOverlap, dbData, settled, expect, now,
                 pgExp, wOutcome>>
  /\ UNCHANGED <<poolVars, fetchVars, gwVars, phaseVars, scrapeVars, evidenceVars>>

NextCache ==
  \/ \E w \in SerialWriters : CacheScrapedContent(w)
  \/ \E w \in SerialWriters : Invalidate(w)
  \/ \E w \in SerialWriters : WriteFast(w)
  \/ \E w \in SerialWriters : WriteDurable(w)
  \/ \E g \in Gets : GetCall(g)
  \/ \E g \in Gets : GetFast(g)
  \/ \E g \in Gets : GetDurable(g)
  \/ \E g \in Gets : Backfill(g)

SpecCache == Init /\ [][NextCache]_vars

\* The put calls while both tiers are available: each operation takes effect.
FastSet(w) ==
  /\ wPc[w] \in {"start", "pgDone"}
  /\ FastTakesEffect(w)
  /\ UNCHANGED <<pgStore, wKind, wBody, wOverlap, gPc, dbData, gResult, expect, now,
                 pgExp, gOutcome, gFailed, gBorn, gHit>>
  /\ UNCHANGED <<poolVars, fetchVars, gwVars, phaseVars, scrapeVars, evidenceVars>>

DurableSet(w) ==
  /\ wPc[w] \in {"start", "redisDone"}
  /\ DurableTakesEffect(w)
  /\ UNCHANGED <<redisStore, wKind, wBody, wOverlap, gPc, dbData, gResult, expect,
                 now, redisExp, redisBorn, gOutcome, gFailed, gBorn, gHit>>
  /\ UNCHANGED <<poolVars, fetchVars, gwVars, phaseVars, scrapeVars, evidenceVars>>

NextPuts ==
  \/ \E w \in Writers : CacheScrapedContent(w)
  \/ \E w \in Writers : FastSet(w)
  \/ \E w \in Writers : DurableSet(w)

SpecPuts == Init /\ [][NextPuts]_vars

\* A tick of the clock.
Tick ==
  /\ now < MaxTime
  /\ now' = now + 1
  /\ UNCHANGED <<redisStore, pgStore, wPc, wKind, wBody, wOverlap, gPc, dbData,
                 gResult, settled, expect, redisExp, redisBorn, pgExp, wOutcome,
                 gOutcome, gFailed, gBorn, gHit>>
  /\ UNCHANGED <<poolVars, fetchVars, gwVars, phaseVars, scrapeVars, evidenceVars>>

NextCacheTtl ==
  \/ NextCache
  \/ Tick

SpecCacheTtl == Init /\ [][NextCacheTtl]_vars

\* --------------------------------------------------- claims on the cache
\* C5: once cacheScrapedContent(U, V) has returned, a getScrapedContent(U) that
\* starts afterwards, with no other put or invalidate of U, returns V, whatever
\* other gets run concurrently. Puts and gets in which an operation of a tier
\* failed are left aside.
C5_ReadAfterWrite ==
  \A g \in Gets :
    (gPc[g] = "done" /\ expect[g] # 0 /\ gFailed[g] = "no") => gResult[g] = expect[g]

\* C17: a get that found no entry in the fast tier and an unexpired one in the
\* durable tier returns the body of the durable entry, also when its backfill
\* write fails; when the backfill succeeds, the fast tier then holds that body.
C17_DurableHitReturned ==
  [][\A g \in Gets :
       (gPc[g] = "backfill" /\ gPc'[g] = "done")
       => /\ gResult'[g] = dbData[g]
          /\ gFailed'[g] # "caught" => redisStore' = dbData[g]]_vars

\* C18: getScrapedContent, cacheScrapedContent and invalidate never throw,
\* whichever operations of the tiers fail, and a get whose catch block ran
\* returns a miss.
C18_CacheNeverThrows ==
  /\ \A w \in Writers : wOutcome[w] # "threw"
  /\ \A g \in Gets : gOutcome[g] # "threw"
  /\ \A w \in Writers :
       (wPc[w] = "idle" /\ (wKind[w] = "invalidate" \/ wBody[w] # 0))
       => wOutcome[w] = "returned"
  /\ \A g \in Gets : gPc[g] = "done" => gOutcome[g] = "returned"
  /\ \A g \in Gets : (gPc[g] = "done" /\ gFailed[g] = "caught") => gResult[g] = 0

C18_Witness ==
  /\ \E w \in Writers :
       wKind[w] = "put" /\ wPc[w] = "idle" /\ wOutcome[w] = "returned" /\ pgStore = 0
         /\ redisStore = 0 /\ wBody[w] # 0
  /\ \E g \in Gets : gPc[g] = "done" /\ gFailed[g] = "caught" /\ dbData[g] # 0

\* C19: a get does not return a body once the TTL of the put that wrote it has
\* run out: a hit of the fast tier, which is read and returned in one step,
\* happens within TtlTicks of that put, also for a key that a backfill wrote.
C19_NothingAfterTtl ==
  [][\A g \in Gets :
       (gPc[g] = "redisGet" /\ gPc'[g] = "done" /\ gResult'[g] # 0)
       => now < gBorn'[g] + TtlTicks]_vars

\* An invalidate call has returned, no put is in progress and neither tier holds
\* an entry.
Invalidated ==
  /\ \E w \in Writers : wKind[w] = "invalidate" /\ wPc[w] = "idle" /\ wOutcome[w] = "returned"
  /\ \A w \in Writers : WriteInFlight(w) => wKind[w] = "invalidate"
  /\ redisStore = 0
  /\ pgStore = 0

\* C35: once invalidate has returned and has emptied both tiers, neither tier
\* holds an entry and every get misses until the next put, whatever a get that
\* read the durable tier before the delete does afterwards.
C35_InvalidateHolds ==
  [][Invalidated =>
       /\ redisStore' = 0
       /\ pgStore' = 0
       /\ \A g \in Gets : (gPc[g] # "done" /\ gPc'[g] = "done") => gResult'[g] = 0]_vars

\* C36: when put calls for the URL with different bodies have run concurrently and
\* all have returned, the fast tier and the durable tier hold the same body.
C36_TiersAgree ==
  (/\ \A w \in Writers : wKind[w] = "put" /\ wPc[w] = "idle" /\ wOutcome[w] = "returned"
   /\ \E w \in Writers : wOverlap[w]
   /\ \E v, w \in Writers : wBody[v] # wBody[w])
  => redisStore = pgStore

\* ------------------------------------------------- run store and phases
Phases == {"brand-summary", "competitors", "competitors/analyze", "kernel"}

NonInitialPhases == Phases \ {"brand-summary"}

\* A row as INSERT INTO runs (run_id, expires_at, metadata) leaves it: status
\* 'active' by default, expires_at in the future, every artifact column NULL.
NewRow ==
  [present |-> TRUE, status |-> "active", expired |-> FALSE, brand_data |-> "null", competitors_10 |-> "null",
   competitors_selected |-> "null", kernel_data |-> "null"]

\* The codes of the AppError classes, and the status each carries.
AppErrorCodes ==
  {"VALIDATION_ERROR", "LOW_CONFIDENCE", "INSUFFICIENT_DATA", "OPENAI_ERROR",
   "OPENAI_TIMEOUT", "UPSTREAM_ARTIFACT_MISSING"}

\* The error field errorHandler sends for a thrown error.
ErrorResponse(err) == IF err \in AppErrorCodes THEN err ELSE "INTERNAL_ERROR"

\* The HTTP status that goes with a response.
StatusCode(resp) ==
  CASE resp = "OK" -> 200
    [] resp = "VALIDATION_ERROR" -> 400
    [] resp = "LOW_CONFIDENCE" -> 422
    [] resp \in {"INSUFFICIENT_DATA", "UPSTREAM_ARTIFACT_MISSING"} -> 424
    [] resp = "OPENAI_ERROR" -> 503
    [] resp \in {"OPENAI_TIMEOUT", "REQUEST_TIMEOUT"} -> 504
    [] OTHER -> 500

\* JavaScript truthiness of a slot value: NULL is falsy, an object or an array,
\* the empty array included, is truthy.
Truthy(v) == v # "null"

\* runsModel.getRun returned null and throwIfNotFound is true.
RunMissing_NoThrow(row) == FALSE

RunMissing(row) == ~(row.present /\ row.status = "active")

\* The upstream checks of the three non-initial handlers on the run they loaded.
PhaseGate_BrandOnly(ph, run) == Truthy(run.brand_data)

PhaseGate_KernelOnly(ph, run) ==
  ph = "kernel" => /\ Truthy(run.brand_data)
                   /\ Truthy(run.competitors_selected)
                   /\ run.competitors_selected # "empty"

PhaseGate(ph, run) ==
  CASE ph = "competitors" -> Truthy(run.brand_data)
    [] ph = "competitors/analyze" -> Truthy(run.competitors_10)
    [] ph = "kernel" -> /\ Truthy(run.brand_data)
                        /\ Truthy(run.competitors_selected)
                        /\ run.competitors_selected # "empty"

\* The handler of request r throws err: errorHandler sends it, unless a response
\* has already gone out.
Throw(r, err) ==
  /\ hPc' = [hPc EXCEPT ![r] = "done"]
  /\ hErr' = [hErr EXCEPT ![r] = err]
  /\ response' = [response EXCEPT ![r] = IF @ = "none" THEN ErrorResponse(err) ELSE @]

\* The handler of request r ends with reply.send(...).
Send(r) ==
  /\ hPc' = [hPc EXCEPT ![r] = "done"]
  /\ response' = [response EXCEPT ![r] = IF @ = "none" THEN "OK" ELSE @]
  /\ UNCHANGED hErr

\* The handler of request r goes on to its next await.
Goto(r, next) ==
  /\ hPc' = [hPc EXCEPT ![r] = next]
  /\ UNCHANGED <<hErr, response>>

\* A per-domain analysis is running while it is at one of its awaits; otherwise it
\* was never started, has fulfilled ("ok") or has rejected with an error code.
TaskRunning(t) == t \in {"scrape", "llm", "evidence"}

TaskFailed(t) == t \notin {"none", "pending", "ok"} /\ ~TaskRunning(t)

\* A request slot is free when its handler has ended and no per-domain analysis it
\* started is still running.
ReqFree(r) ==
  /\ hPc[r] \in {"idle", "done"}
  /\ \A d \in Domains : ~TaskRunning(tasks[r][d])

\* The run_id values a request body can carry: an identifier of the form
\* generateRunId returns, and the one of the testing guide's invalid-run test.
BodyRunIds == RunIds \cup {"run_fake-id"}

\* The characters of a run_id.
Chars(id) ==
  CASE id = "run_1" -> <<"r", "u", "n", "_", "1">>
    [] id = "run_fake-id" -> <<"r", "u", "n", "_", "f", "a", "k", "e", "-", "i", "d">>

\* The character class [a-f0-9-].
HexOrDash ==
  {"a", "b", "c", "d", "e", "f", "0", "1", "2", "3", "4", "5", "6", "7", "8", "9", "-"}

\* pattern: '^run_[a-f0-9-]+$' of the run_id property of the three schemas.
RunIdPattern(id) ==
  LET cs == Chars(id) IN
    /\ Len(cs) > 4
    /\ SubSeq(cs, 1, 4) = <<"r", "u", "n", "_">>
    /\ \A i \in 5..Len(cs) : cs[i] \in HexOrDash

\* The brand_url values a brand-summary body can carry.
BrandUrls ==
  {"https://brand.com/#top", "ftp://brand.com/", "file:///etc/passwd", "https://brand.com:99999"}

\* The characters of a URL up to the end of its first "//", if it has one.
SchemePrefix(url) ==
  CASE url \in {"https://brand.com/#top", "https://brand.com:99999", "https://a.com",
                "https://b.com", "https://a b"} -> "https://"
    [] url = "ftp://brand.com/" -> "ftp://"
    [] url = "file:///etc/passwd" -> "file://"

\* pattern: '^https?://' of brandSummarySchema. Its format 'uri' rejects none of
\* BrandUrls: each is a URI of RFC 3986, whose port is any string of digits.
BrandUrlPattern(url) == SchemePrefix(url) \in {"http://", "https://"}

\* validator(data) of the route's schema, as far as run_id and brand_url decide it.
ValidBody(ph, id, url) ==
  IF ph = "brand-summary" THEN BrandUrlPattern(url) ELSE RunIdPattern(id)

\* new URL(url): whether the parser accepts the string, and the protocol and the
\* serialization without fragment of what it parsed. It throws on a port above
\* 65535 and on a space in the host.
ParseUrl(url) ==
  CASE url = "https://brand.com/#top" ->
         [ok |-> TRUE, protocol |-> "https:", href |-> "https://brand.com/"]
    [] url = "https://a.com" -> [ok |-> TRUE, protocol |-> "https:", href |-> "https://a.com/"]
    [] url = "https://b.com" -> [ok |-> TRUE, protocol |-> "https:", href |-> "https://b.com/"]
    [] url = "ftp://brand.com/" ->
         [ok |-> TRUE, protocol |-> "ftp:", href |-> "ftp://brand.com/"]
    [] url = "file:///etc/passwd" ->
         [ok |-> TRUE, protocol |-> "file:", href |-> "file:///etc/passwd"]
    [] OTHER -> [ok |-> FALSE, protocol |-> "", href |-> ""]

\* sanitizeUrl(url): the URL without its fragment, or "Error" when it throws: both
\* the parser's TypeError and the protocol test end in `throw new Error(...)`.
SanitizeUrl(url) ==
  LET parsed == ParseUrl(url) IN
    IF ~parsed.ok \/ parsed.protocol \notin {"http:", "https:"} THEN "Error"
    ELSE parsed.href

\* `https://${domain}` of the competitors/analyze handler.
TemplateUrl(domain) ==
  CASE domain = "a.com" -> "https://a.com"
    [] domain = "b.com" -> "https://b.com"
    [] domain = "a b" -> "https://a b"

\* A request arrives at a route; the handler validates the body, throws
\* ValidationError when it fails, and otherwise runs up to its first await.
Arrive(r, ph, id, url, ds) ==
  /\ ReqFree(r)
  /\ phase' = [phase EXCEPT ![r] = ph]
  /\ runId' = [runId EXCEPT ![r] = id]
  /\ brand_url' = [brand_url EXCEPT ![r] = url]
  /\ brandData' = [brandData EXCEPT ![r] = "none"]
  /\ tasks' = [tasks EXCEPT ![r] = [d \in Domains |-> IF d \in ds THEN "pending" ELSE "none"]]
  /\ calls' = [calls EXCEPT ![r] = {}]
  /\ IF ValidBody(ph, id, url)
       THEN /\ hPc' = [hPc EXCEPT ![r] = IF ph = "brand-summary" THEN "createRun" ELSE "getRun"]
            /\ hErr' = [hErr EXCEPT ![r] = "none"]
            /\ response' = [response EXCEPT ![r] = "none"]
       ELSE /\ hPc' = [hPc EXCEPT ![r] = "done"]
            /\ hErr' = [hErr EXCEPT ![r] = "VALIDATION_ERROR"]
            /\ response' = [response EXCEPT ![r] = ErrorResponse("VALIDATION_ERROR")]
  /\ UNCHANGED runs
  /\ UNCHANGED <<poolVars, fetchVars, gwVars, cacheVars, scrapeVars, evidenceVars>>

\* POST /v1/brand-summary; a run identifier must be left for createRun.
BrandSummaryRequest(r) ==
  /\ Cardinality({id \in RunIds : runs[id].status = "none"})
       > Cardinality({q \in Reqs : hPc[q] = "createRun"})
  /\ \E url \in BrandUrls : Arrive(r, "brand-summary", "none", url, {})

\* POST /v1/competitors {run_id}
CompetitorsRequest(r) == \E id \in BodyRunIds : Arrive(r, "competitors", id, "none", {})

\* The domains that name a host.
HostDomains == {d \in Domains : ParseUrl(TemplateUrl(d)).ok}

\* POST /v1/competitors/analyze {run_id, domains}, each domain naming a host
CompetitorsAnalyzeRequest(r) ==
  \E id \in BodyRunIds : \E ds \in (SUBSET HostDomains) \ {{}} :
    Arrive(r, "competitors/analyze", id, "none", ds)

\* POST /v1/competitors/analyze {run_id, domains}, the domains being any strings
\* of three characters or more
CompetitorsAnalyzeAnyRequest(r) ==
  \E id \in BodyRunIds : \E ds \in (SUBSET Domains) \ {{}} :
    Arrive(r, "competitors/analyze", id, "none", ds)

\* POST /v1/kernel {run_id}
KernelRequest(r) == \E id \in BodyRunIds : Arrive(r, "kernel", id, "none", {})

\* run = await storageService.createRun()
CreateRun(r) ==
  /\ hPc[r] = "createRun"
  /\ \E id \in RunIds :
       /\ runs[id].status = "none"
       /\ runs' = [runs EXCEPT ![id] = NewRow]
       /\ runId' = [runId EXCEPT ![r] = id]
  /\ calls' = [calls EXCEPT ![r] = @ \cup {"createRun"}]
  /\ Goto(r, "scrape")
  /\ UNCHANGED <<phase, brand_url, brandData, tasks>>
  /\ UNCHANGED <<poolVars, fetchVars, gwVars, cacheVars, scrapeVars, evidenceVars>>

\* Promise.all over the per-domain promises: rejected as soon as one is, fulfilled
\* when every one is.
PromiseAll_Settled(ts) ==
  IF \E d \in Domains : TaskRunning(ts[d]) THEN "pending" ELSE "fulfilled"

PromiseAll(ts) ==
  IF \E d \in Domains : TaskFailed(ts[d]) THEN "rejected"
  ELSE IF \E d \in Domains : TaskRunning(ts[d]) THEN "pending"
  ELSE "fulfilled"

\* The analysis of a domain up to its first await: scrapeWebsite calls sanitizeUrl
\* before it awaits anything, so a URL it rejects rejects the analysis at once.
StartAnalysis(d) == IF SanitizeUrl(TemplateUrl(d)) = "Error" THEN "Error" ELSE "scrape"

\* run = await storageService.getRun(run_id), then the handler's upstream checks;
\* the competitors/analyze handler starts one analysis per domain and awaits
\* Promise.all, which rejects before any other event when an analysis has rejected.
GetRun(r) ==
  /\ hPc[r] = "getRun"
  /\ LET run == runs[runId[r]] IN
       IF RunMissing(run) THEN Throw(r, "UPSTREAM_ARTIFACT_MISSING") /\ UNCHANGED tasks
       ELSE IF ~run.present THEN Throw(r, "TypeError") /\ UNCHANGED tasks
       ELSE IF ~PhaseGate(phase[r], run)
         THEN Throw(r, "UPSTREAM_ARTIFACT_MISSING") /\ UNCHANGED tasks
       ELSE IF phase[r] = "competitors/analyze"
         THEN LET started == [d \in Domains |-> IF tasks[r][d] = "pending"
                                                  THEN StartAnalysis(d) ELSE tasks[r][d]]
              IN /\ tasks' = [tasks EXCEPT ![r] = started]
                 /\ IF PromiseAll(started) = "rejected"
                      THEN Throw(r, "Error") ELSE Goto(r, "fanout")
         ELSE Goto(r, "llm") /\ UNCHANGED tasks
  /\ UNCHANGED <<runs, phase, runId, brand_url, brandData, calls>>
  /\ UNCHANGED <<poolVars, fetchVars, gwVars, cacheVars, scrapeVars, evidenceVars>>
\* scrapedData = await scraperService.scrapeWebsite(brand_url) in brand-summary:
\* sanitizeUrl throws, or it returns at least three pages, or returns fewer, or
\* throws.
ScrapeWebsite(r) ==
  /\ hPc[r] = "scrape"
  /\ calls' = [calls EXCEPT ![r] = @ \cup {"scrape"}]
  /\ IF SanitizeUrl(brand_url[r]) = "Error"
       THEN Throw(r, "Error")
       ELSE \/ Goto(r, "llm")
            \/ Throw(r, "INSUFFICIENT_DATA")
  /\ UNCHANGED <<runs, phase, runId, brand_url, brandData, tasks>>
  /\ UNCHANGED <<poolVars, fetchVars, gwVars, cacheVars, scrapeVars, evidenceVars>>

\* The errors a gateway call throws once its attempts are used up.
GatewayErrors == {"OPENAI_ERROR", "OPENAI_TIMEOUT"}

\* await openaiService.analyzeBrand / findCompetitors / assembleKernel
CallGateway(r) ==
  /\ hPc[r] = "llm"
  /\ calls' = [calls EXCEPT ![r] = @ \cup {"llm"}]
  /\ \/ Goto(r, IF phase[r] = "brand-summary" THEN "evidence" ELSE "save")
     \/ \E err \in GatewayErrors : Throw(r, err)
  /\ UNCHANGED <<runs, phase, runId, brand_url, brandData, tasks>>
  /\ UNCHANGED <<poolVars, fetchVars, gwVars, cacheVars, scrapeVars, evidenceVars>>

\* The brandData objects the brand-summary handler builds, told apart by their
\* confidence_0_1: a number that passed the gate, or the NaN that passes it when
\* the answer had no numeric confidence_0_1.
Brands == {"set", "set, confidence NaN"}

\* JSON.parse(JSON.stringify(B)), the way of a value through a JSONB column: NaN is
\* serialized as null.
JsonRoundTrip(B) == IF B = "set, confidence NaN" THEN "set, confidence null" ELSE B

\* await evidenceService.checkEvidenceRefs(...) in brand-summary, then the confidence
\* gate and the construction of brandData: urls.map throws when evidence_refs is
\* not an array.
CheckEvidence(r) ==
  /\ hPc[r] = "evidence"
  /\ calls' = [calls EXCEPT ![r] = @ \cup {"evidence"}]
  /\ \/ \E B \in Brands : Goto(r, "save") /\ brandData' = [brandData EXCEPT ![r] = B]
     \/ Throw(r, "LOW_CONFIDENCE") /\ UNCHANGED brandData
     \/ Throw(r, "TypeError") /\ UNCHANGED brandData
  /\ UNCHANGED <<runs, phase, runId, brand_url, tasks>>
  /\ UNCHANGED <<poolVars, fetchVars, gwVars, cacheVars, scrapeVars, evidenceVars>>

\* The row after the save* call of a phase: saveCompetitors stores the filtered
\* list, which may be empty.
Saved(ph, run, list, B) ==
  CASE ph = "brand-summary" -> [run EXCEPT !.brand_data = JsonRoundTrip(B)]
    [] ph = "competitors" -> [run EXCEPT !.competitors_10 = list]
    [] ph = "competitors/analyze" -> [run EXCEPT !.competitors_selected = "set"]
    [] ph = "kernel" -> [run EXCEPT !.kernel_data = "set"]

\* UPDATE runs SET ... WHERE run_id = $n: the row is updated whatever its status;
\* with no such row nothing is updated and no error is raised.
UpdateRun(run, updated) == IF run.present THEN updated ELSE run

\* await storageService.saveBrand / saveCompetitors / saveAnalyzedCompetitors /
\* saveKernel, then reply.send(...)
Save(r) ==
  /\ hPc[r] = "save"
  /\ \E list \in {"empty", "set"} :
       runs' = [runs EXCEPT ![runId[r]] = UpdateRun(@, Saved(phase[r], @, list, brandData[r]))]
  /\ calls' = [calls EXCEPT ![r] = @ \cup {"save"}]
  /\ Send(r)
  /\ UNCHANGED <<phase, runId, brand_url, brandData, tasks>>
  /\ UNCHANGED <<poolVars, fetchVars, gwVars, cacheVars, scrapeVars, evidenceVars>>

\* The step of a per-domain analysis after the await it is at.
TaskNext(t) ==
  CASE t = "scrape" -> "llm"
    [] t = "llm" -> "evidence"
    [] t = "evidence" -> "ok"

\* The error a per-domain analysis throws at the await it is at.
TaskErrors(t) ==
  CASE t = "scrape" -> {"INSUFFICIENT_DATA"}
    [] t = "llm" -> GatewayErrors
    [] t = "evidence" -> {"TypeError"}

\* One await of the analysis of domain d in competitors/analyze completes, and the
\* handler, if it is still awaiting Promise.all, resumes: the first rejection makes
\* it throw that error, while the other analyses keep running.
TaskStep(r, d) ==
  /\ TaskRunning(tasks[r][d])
  /\ calls' = [calls EXCEPT ![r] = @ \cup {tasks[r][d]}]
  /\ \/ tasks' = [tasks EXCEPT ![r][d] = TaskNext(@)]
     \/ \E err \in TaskErrors(tasks[r][d]) : tasks' = [tasks EXCEPT ![r][d] = err]
  /\ IF hPc[r] # "fanout" \/ PromiseAll(tasks'[r]) = "pending"
       THEN UNCHANGED <<hPc, hErr, response>>
       ELSE IF PromiseAll(tasks'[r]) = "rejected"
         THEN Throw(r, tasks'[r][d])
         ELSE Goto(r, "save")
  /\ UNCHANGED <<runs, phase, runId, brand_url, brandData>>
  /\ UNCHANGED <<poolVars, fetchVars, gwVars, cacheVars, scrapeVars, evidenceVars>>

\* The timer of requestTimeoutMiddleware fires before a response has been sent.
\* Nothing stops the handler.
DeadlineExpires(r) ==
  /\ hPc[r] \notin {"idle", "done"}
  /\ response[r] = "none"
  /\ response' = [response EXCEPT ![r] = "REQUEST_TIMEOUT"]
  /\ UNCHANGED <<runs, phase, runId, brand_url, brandData, hPc, tasks, hErr, calls>>
  /\ UNCHANGED <<poolVars, fetchVars, gwVars, cacheVars, scrapeVars, evidenceVars>>

NextPhases ==
  \/ \E r \in Reqs : BrandSummaryRequest(r)
  \/ \E r \in Reqs : CompetitorsRequest(r)
  \/ \E r \in Reqs : CompetitorsAnalyzeRequest(r)
  \/ \E r \in Reqs : KernelRequest(r)
  \/ \E r \in Reqs : CreateRun(r)
  \/ \E r \in Reqs : GetRun(r)
  \/ \E r \in Reqs : ScrapeWebsite(r)
  \/ \E r \in Reqs : CallGateway(r)
  \/ \E r \in Reqs : CheckEvidence(r)
  \/ \E r \in Reqs : Save(r)
  \/ \E r \in Reqs : \E d \in Domains : TaskStep(r, d)
  \/ \E r \in Reqs : DeadlineExpires(r)

SpecPhases == Init /\ [][NextPhases]_vars

\* The phase handlers with every domain string the schema lets through.
NextCanonical ==
  \/ NextPhases
  \/ \E r \in Reqs : CompetitorsAnalyzeAnyRequest(r)

SpecCanonical == Init /\ [][NextCanonical]_vars

\* ---------------------------------------------------------- run lifecycle
\* deleteRun(runId): UPDATE runs SET status = 'deleted' WHERE run_id = $1
DeleteRun(id) ==
  /\ runs[id].present
  /\ runs[id].status = "active"
  /\ runs' = [runs EXCEPT ![id].status = "deleted"]
  /\ UNCHANGED <<phase, runId, brand_url, brandData, hPc, tasks, hErr, response, calls>>
  /\ UNCHANGED <<poolVars, fetchVars, gwVars, cacheVars, scrapeVars, evidenceVars>>

\* Time passes the expires_at of a run.
RunDeadlinePasses(id) ==
  /\ runs[id].present
  /\ ~runs[id].expired
  /\ runs' = [runs EXCEPT ![id].expired = TRUE]
  /\ UNCHANGED <<phase, runId, brand_url, brandData, hPc, tasks, hErr, response, calls>>
  /\ UNCHANGED <<poolVars, fetchVars, gwVars, cacheVars, scrapeVars, evidenceVars>>

\* cleanup_expired_data(): DELETE FROM runs WHERE expires_at < CURRENT_TIMESTAMP
\* AND status != 'archived'
CleanupExpiredRuns ==
  /\ \E id \in RunIds : runs[id].present /\ runs[id].expired
  /\ runs' = [id \in RunIds |->
               IF runs[id].present /\ runs[id].expired /\ runs[id].status # "archived"
                 THEN [NoRow EXCEPT !.status = "reaped"]
                 ELSE runs[id]]
  /\ UNCHANGED <<phase, runId, brand_url, brandData, hPc, tasks, hErr, response, calls>>
  /\ UNCHANGED <<poolVars, fetchVars, gwVars, cacheVars, scrapeVars, evidenceVars>>

NextRuns ==
  \/ NextPhases
  \/ \E id \in RunIds : DeleteRun(id)
  \/ \E id \in RunIds : RunDeadlinePasses(id)
  \/ CleanupExpiredRuns

SpecRuns == Init /\ [][NextRuns]_vars

C30_AttemptsCounted ==
  gwPc = "done" => apiCalls = Len(outcomes)

\* ------------------------------------------------- claims on the phases
\* A slot that has been written: the column is not NULL. No action sets a column
\* back to NULL or removes a row.
SlotWritten(v) == v # "null"

\* The upstream slots the phase needs have not all been written.
UpstreamMissing(ph, run) ==
  CASE ph = "competitors" -> ~SlotWritten(run.brand_data)
    [] ph = "competitors/analyze" -> ~SlotWritten(run.competitors_10)
    [] ph = "kernel" -> ~SlotWritten(run.brand_data) \/ ~SlotWritten(run.competitors_selected)
    [] OTHER -> FALSE

NamesRun(r) == runId[r] \in RunIds /\ runs[runId[r]].present

\* The handler of request r is past its load of the run.
PastGate(r) == hPc[r] \notin {"idle", "createRun", "getRun"}

\* C3: a non-initial phase on a run that exists but whose required upstream slot
\* was never written fails with UPSTREAM_ARTIFACT_MISSING (424) without having
\* made a scrape, LLM or evidence call and without having written a slot.
C3_GateBeforeWork ==
  \A r \in Reqs :
    (/\ phase[r] \in NonInitialPhases
     /\ PastGate(r)
     /\ NamesRun(r)
     /\ UpstreamMissing(phase[r], runs[runId[r]]))
    => /\ hPc[r] = "done"
       /\ hErr[r] = "UPSTREAM_ARTIFACT_MISSING"
       /\ StatusCode(ErrorResponse(hErr[r])) = 424
       /\ calls[r] = {}
       /\ \A d \in Domains : tasks[r][d] \in {"none", "pending"}

C3_Witness ==
  \E r \in Reqs :
    /\ phase[r] = "kernel"
    /\ hPc[r] = "done"
    /\ NamesRun(r)
    /\ SlotWritten(runs[runId[r]].brand_data)
    /\ ~SlotWritten(runs[runId[r]].competitors_selected)

\* C4: a non-initial phase on a run_id that names no run fails with 424
\* UPSTREAM_ARTIFACT_MISSING, which is the response unless the deadline's 504 went
\* out first, and the handler creates no row and writes no slot.
C4_UnknownRun ==
  \A r \in Reqs :
    (phase[r] \in NonInitialPhases /\ PastGate(r) /\ ~NamesRun(r))
    => /\ hPc[r] = "done"
       /\ hErr[r] = "UPSTREAM_ARTIFACT_MISSING"
       /\ response[r] # "REQUEST_TIMEOUT"
            => response[r] = "UPSTREAM_ARTIFACT_MISSING" /\ StatusCode(response[r]) = 424
       /\ calls[r] = {}

C4_Witness ==
  \E r \in Reqs :
    /\ phase[r] \in NonInitialPhases
    /\ hPc[r] = "done"
    /\ ~NamesRun(r)
    /\ response[r] = "UPSTREAM_ARTIFACT_MISSING"

\* C9: in competitors/analyze, once the analysis of one domain has failed, the
\* handler has ended with the error of a failed analysis, saveAnalyzedCompetitors
\* is not called and the request writes nothing to the run.
C9_AnyFailureFailsPhase ==
  \A r \in Reqs :
    (phase[r] = "competitors/analyze" /\ \E d \in Domains : TaskFailed(tasks[r][d]))
    => /\ hPc[r] = "done"
       /\ \E d \in Domains : TaskFailed(tasks[r][d]) /\ hErr[r] = tasks[r][d]
       /\ "save" \notin calls[r]
       /\ "createRun" \notin calls[r]

C9_Witness ==
  \E r \in Reqs :
    /\ phase[r] = "competitors/analyze"
    /\ \E d \in Domains : TaskFailed(tasks[r][d])
    /\ \E d \in Domains : tasks[r][d] = "ok"
    /\ hPc[r] = "done"
    /\ runs[runId[r]].competitors_selected = "null"

\* C10: once the 504 REQUEST_TIMEOUT response of a request has gone out, its
\* handler makes no save* call.
C10_NoSaveAfterTimeout ==
  [][\A r \in Reqs :
       response[r] = "REQUEST_TIMEOUT"
         => ~("save" \in calls'[r] /\ "save" \notin calls[r])]_vars

\* C26: each artifact slot of a run is filled monotonically: a slot that holds a
\* non-empty artifact holds one after every step in which the run goes on existing.
C26_SlotsMonotone ==
  [][\A id \in RunIds :
       (runs[id].present /\ runs'[id].present) =>
         /\ runs[id].brand_data = "set" => runs'[id].brand_data = "set"
         /\ runs[id].competitors_10 = "set" => runs'[id].competitors_10 = "set"
         /\ runs[id].competitors_selected = "set" => runs'[id].competitors_selected = "set"
         /\ runs[id].kernel_data = "set" => runs'[id].kernel_data = "set"]_vars

\* C31: POST /v1/kernel with the body {"run_id": "run_fake-id"} is answered with
\* status 424 and the error code UPSTREAM_ARTIFACT_MISSING.
C31_FakeRunId424 ==
  \A r \in Reqs :
    (phase[r] = "kernel" /\ runId[r] = "run_fake-id" /\ hPc[r] = "done")
    => /\ response[r] = "UPSTREAM_ARTIFACT_MISSING"
       /\ StatusCode(response[r]) = 424

\* C32: an input that sanitizeUrl rejects (a scheme other than http and https, or
\* a string that is no URL) is answered with VALIDATION_ERROR (400), for the
\* brand_url of brand-summary and for the https://<domain> of competitors/analyze.
C32_RejectedUrlIs400 ==
  \A r \in Reqs :
    (\/ /\ phase[r] = "brand-summary"
        /\ hPc[r] = "done"
        /\ SanitizeUrl(brand_url[r]) = "Error"
     \/ /\ phase[r] = "competitors/analyze"
        /\ \E d \in Domains : tasks[r][d] = "Error")
    => /\ hErr[r] = "VALIDATION_ERROR"
       /\ StatusCode(ErrorResponse(hErr[r])) = 400

\* C33: saveBrand(r, B) on an existing active run changes exactly the brand slot:
\* afterwards brand_data equals B, and competitors_10, competitors_selected,
\* kernel_data, the status and the expiry of the run are as before.
C33_SaveBrandWritesBrandOnly ==
  [][\A r \in Reqs :
       (/\ phase[r] = "brand-summary"
        /\ hPc[r] = "save"
        /\ hPc'[r] = "done"
        /\ ~RunMissing(runs[runId[r]]))
       => /\ runs'[runId[r]].brand_data = brandData[r]
          /\ runs'[runId[r]] = [runs[runId[r]] EXCEPT !.brand_data = runs'[runId[r]].brand_data]
          /\ ~RunMissing(runs'[runId[r]])]_vars

\* -------------------------------------------- claims on the run lifecycle
\* The slot a phase writes.
PhaseSlot(ph, run) ==
  CASE ph = "brand-summary" -> run.brand_data
    [] ph = "competitors" -> run.competitors_10
    [] ph = "competitors/analyze" -> run.competitors_selected
    [] ph = "kernel" -> run.kernel_data

\* The errors a handler throws on purpose.
TypedErrors ==
  {"UPSTREAM_ARTIFACT_MISSING", "INSUFFICIENT_DATA", "LOW_CONFIDENCE",
   "OPENAI_ERROR", "OPENAI_TIMEOUT"}

\* C11: at the step in which a handler sends its success response, a getRun of
\* the run returns it with the slot of the phase written, also when the run was
\* soft-deleted or reaped while the phase ran; and a handler that has ended in a
\* typed error has made no save* call.
C11_SuccessMeansStored ==
  [][\A r \in Reqs :
       /\ (response[r] = "none" /\ response'[r] = "OK")
            => /\ ~RunMissing(runs'[runId'[r]])
               /\ SlotWritten(PhaseSlot(phase'[r], runs'[runId'[r]]))
       /\ (hErr'[r] \in TypedErrors) => "save" \notin calls'[r]]_vars

\* C12: a non-initial phase whose load of the run happens when the run is active
\* but past its expires_at, and not yet reaped, fails with
\* UPSTREAM_ARTIFACT_MISSING.
C12_ExpiredRunNotReturned ==
  [][\A r \in Reqs :
       (/\ hPc[r] = "getRun"
        /\ hPc'[r] # "getRun"
        /\ runs[runId[r]].present
        /\ runs[runId[r]].status = "active"
        /\ runs[runId[r]].expired)
       => hErr'[r] = "UPSTREAM_ARTIFACT_MISSING"]_vars

\* C13: competitors/analyze on a run whose competitors_10 holds an empty list
\* fails at its upstream check with UPSTREAM_ARTIFACT_MISSING and starts no
\* per-domain analysis, hence no scrape and no LLM call.
C13_EmptyListFailsGate ==
  [][\A r \in Reqs :
       (/\ phase[r] = "competitors/analyze"
        /\ hPc[r] = "getRun"
        /\ hPc'[r] # "getRun"
        /\ ~RunMissing(runs[runId[r]])
        /\ runs[runId[r]].competitors_10 = "empty")
       => /\ hPc'[r] = "done"
          /\ hErr'[r] = "UPSTREAM_ARTIFACT_MISSING"
          /\ \A d \in Domains : ~TaskRunning(tasks'[r][d])]_vars

\* ------------------------------------------------------------- scraper
\* The ways scrapePage(url) ends in its catch block and returns null: page.goto
\* rejects, page.goto times out after pageLoadTimeout, getBrowser throws after its
\* 30 s timeout.
FetchFailures == {"navigation", "loadTimeout", "noWorker"}

\* The positions of validUrls in the batch urls.slice(i, i + concurrency).
BatchLast_NoEnd(i, n) == n

BatchLast(i, n) == IF i + Concurrency - 1 < n THEN i + Concurrency - 1 ELSE n

\* scrapePages starts a batch: scrapePage is called on each URL of the slice and
\* runs up to its await of getBrowser.
StartBatch(i, urls) ==
  /\ batchAt' = i
  /\ outcome' = [k \in 1..Len(urls) |->
                  IF k >= i /\ k <= BatchLast(i, Len(urls))
                    THEN [url |-> urls[k], kind |-> "pending", content |-> <<>>]
                    ELSE IF k < i THEN outcome[k]
                    ELSE [url |-> urls[k], kind |-> "unstarted", content |-> <<>>]]
  /\ fetched' = fetched \cup {urls[k] : k \in i..BatchLast(i, Len(urls))}

IsPage(o) == o.kind = "page"

ToPage(o) == [url |-> o.url, content |-> o.content]

\* batchResults.filter(p => p !== null): Promise.all keeps the order of the batch.
BatchPages_Reversed(results) ==
  LET kept == SelectSeq(results, IsPage)
  IN  [k \in 1..Len(kept) |-> ToPage(kept[Len(kept) + 1 - k])]

BatchPages(results) ==
  LET kept == SelectSeq(results, IsPage)
  IN  [k \in 1..Len(kept) |-> ToPage(kept[k])]

\* String.prototype.toLowerCase on a word.
ToLowerCase(w) ==
  CASE w = "A" -> "a" [] w = "B" -> "b" [] w = "C" -> "c" [] w = "D" -> "d"
    [] w = "E" -> "e" [] w = "P" -> "p" [] w = "Q" -> "q" [] w = "R" -> "r"
    [] w = "S" -> "s" [] OTHER -> w

\* new Set(content.toLowerCase().split(/\s+/)): the split of the empty string is [''].
Words(content) ==
  IF content = <<>> THEN {""} ELSE {ToLowerCase(content[k]) : k \in 1..Len(content)}

\* jaccardSimilarity(set1, set2) = intersection.size / union.size
JaccardSimilarity(set1, set2) ==
  Rat(Cardinality(set1 \cap set2), Cardinality(set1 \cup set2))

\* const threshold = 0.8
threshold == Rat(8, 10)

\* similarity > threshold for the two pages
IsDuplicate(p, q) ==
  RatLess(threshold, JaccardSimilarity(Words(p.content), Words(q.content)))

\* deduplicateContent(pages), the loop from index i on: a page is kept unless it
\* is a duplicate of a page already kept.
RECURSIVE DedupFrom_LastOnly(_, _, _)
DedupFrom_LastOnly(ps, i, unique) ==
  IF i > Len(ps) THEN unique
  ELSE IF IsDuplicate(ps[i], unique[Len(unique)])
    THEN DedupFrom_LastOnly(ps, i + 1, unique)
    ELSE DedupFrom_LastOnly(ps, i + 1, Append(unique, ps[i]))

RECURSIVE DedupFrom(_, _, _)
DedupFrom(ps, i, unique) ==
  IF i > Len(ps) THEN unique
  ELSE IF \E k \in 1..Len(unique) : IsDuplicate(ps[i], unique[k])
    THEN DedupFrom(ps, i + 1, unique)
    ELSE DedupFrom(ps, i + 1, Append(unique, ps[i]))

DeduplicateContent(ps) == IF Len(ps) = 0 THEN <<>> ELSE DedupFrom(ps, 2, <<ps[1]>>)

\* validUrls.length === 0
NoValidUrls_Never(urls) == FALSE

NoValidUrls(urls) == Len(urls) = 0

\* scrapeWebsite(url) is called and awaits cacheService.getScrapedContent.
ScrapeWebsiteCall ==
  /\ sPc \in {"idle", "done"}
  /\ sPc' = "cacheGet"
  /\ validUrls' = <<>>
  /\ batchAt' = 1
  /\ outcome' = <<>>
  /\ pages' = <<>>
  /\ sResult' = NoResult
  /\ fetched' = {}
  /\ metric' = 0
  /\ cachePut' = "none"
  /\ UNCHANGED <<poolVars, fetchVars, gwVars, cacheVars, phaseVars, evidenceVars>>

\* cached = await cacheService.getScrapedContent(sanitized): a hit is returned as
\* it is, a miss (null) goes on to discoverPages and the HEAD probes.
ScrapeCacheLookup ==
  /\ sPc = "cacheGet"
  /\ \/ /\ sPc' = "done"
        /\ sResult' = [NoResult EXCEPT !.kind = "cached"]
     \/ /\ sPc' = "probe"
        /\ UNCHANGED sResult
  /\ UNCHANGED <<validUrls, batchAt, outcome, pages, fetched, metric, cachePut>>
  /\ UNCHANGED <<poolVars, fetchVars, gwVars, cacheVars, phaseVars, evidenceVars>>

\* validUrls = await this.validateUrls(candidateUrls): any subset of the
\* candidates survives, in the candidates' order. With none the call throws
\* InsufficientDataError; otherwise scrapePages starts its first batch.
ScrapeProbe ==
  /\ sPc = "probe"
  /\ \E ok \in SUBSET (1..NumCandidates) :
       LET urls == SelectSeq(CandidateUrls, LAMBDA u : u \in ok) IN
         /\ validUrls' = urls
         /\ IF NoValidUrls(urls)
              THEN /\ sPc' = "done"
                   /\ sResult' = [NoResult EXCEPT !.kind = "error",
                                                  !.err = "INSUFFICIENT_DATA"]
                   /\ UNCHANGED <<batchAt, outcome, fetched>>
              ELSE /\ sPc' = "fetch"
                   /\ StartBatch(1, urls)
                   /\ UNCHANGED sResult
  /\ UNCHANGED <<pages, metric, cachePut>>
  /\ UNCHANGED <<poolVars, fetchVars, gwVars, cacheVars, phaseVars, evidenceVars>>

\* scrapePage on the URL at position k of validUrls returns: a page, or null after
\* a failure.
ScrapePageReturn(k) ==
  /\ sPc = "fetch"
  /\ k \in 1..Len(outcome)
  /\ outcome[k].kind = "pending"
  /\ \/ \E c \in Contents :
          outcome' = [outcome EXCEPT ![k].kind = "page", ![k].content = c]
     \/ \E f \in FetchFailures : outcome' = [outcome EXCEPT ![k].kind = f]
  /\ UNCHANGED <<sPc, validUrls, batchAt, pages, sResult, fetched, metric, cachePut>>
  /\ UNCHANGED <<poolVars, fetchVars, gwVars, cacheVars, phaseVars, evidenceVars>>

\* The Promise.all of a batch resolves: its pages are pushed; then either the next
\* batch starts, or scrapePages returns and scrapeWebsite deduplicates, records
\* the duration, builds the result and awaits cacheScrapedContent.
ScrapeBatchDone ==
  /\ sPc = "fetch"
  /\ LET last == BatchLast(batchAt, Len(validUrls)) IN
       /\ \A k \in batchAt..last : outcome[k].kind # "pending"
       /\ pages' = pages \o BatchPages(SubSeq(outcome, batchAt, last))
       /\ IF batchAt + Concurrency <= Len(validUrls)
            THEN /\ StartBatch(batchAt + Concurrency, validUrls)
                 /\ UNCHANGED <<sPc, sResult, metric, cachePut>>
            ELSE /\ sPc' = "cachePut"
                 /\ metric' = metric + 1
                 /\ sResult' = [NoResult EXCEPT !.pages = DeduplicateContent(pages')]
                 /\ cachePut' = DeduplicateContent(pages')
                 /\ UNCHANGED <<batchAt, outcome, fetched>>
  /\ UNCHANGED validUrls
  /\ UNCHANGED <<poolVars, fetchVars, gwVars, cacheVars, phaseVars, evidenceVars>>

\* await cacheService.cacheScrapedContent(sanitized, result) returns, whether or
\* not the tiers took the write, and scrapeWebsite returns the result.
ScrapeReturn ==
  /\ sPc = "cachePut"
  /\ sPc' = "done"
  /\ sResult' = [sResult EXCEPT !.kind = "result"]
  /\ UNCHANGED <<validUrls, batchAt, outcome, pages, fetched, metric, cachePut>>
  /\ UNCHANGED <<poolVars, fetchVars, gwVars, cacheVars, phaseVars, evidenceVars>>

NextScrape ==
  \/ ScrapeWebsiteCall
  \/ ScrapeCacheLookup
  \/ ScrapeProbe
  \/ \E k \in 1..NumCandidates : ScrapePageReturn(k)
  \/ ScrapeBatchDone
  \/ ScrapeReturn

SpecScrape == Init /\ [][NextScrape]_vars

\* ------------------------------------------------- claims on the scraper
\* The call went past the cache lookup and has ended.
ScrapeEnded == sPc = "done" /\ sResult.kind \in {"result", "error"}

\* C14: when at least one URL survived the probe and every page fetch failed,
\* scrapeWebsite has thrown INSUFFICIENT_DATA and passed nothing to
\* cacheScrapedContent.
C14_ZeroPagesFails ==
  (/\ ScrapeEnded
   /\ Len(validUrls) > 0
   /\ \A k \in 1..Len(outcome) : outcome[k].kind \in FetchFailures)
  => /\ sResult.kind = "error"
     /\ sResult.err = "INSUFFICIENT_DATA"
     /\ cachePut = "none"

\* C15: when no candidate URL survived the probe, scrapeWebsite has thrown
\* INSUFFICIENT_DATA, has called scrapePage on no URL (so asked for no worker),
\* has recorded no scraping_duration_ms and has passed nothing to
\* cacheScrapedContent.
C15_NoUrlFails ==
  (ScrapeEnded /\ Len(validUrls) = 0)
  => /\ sResult.kind = "error"
     /\ sResult.err = "INSUFFICIENT_DATA"
     /\ fetched = {}
     /\ metric = 0
     /\ cachePut = "none"

C15_Witness == ScrapeEnded /\ Len(validUrls) = 0 /\ sResult.err = "INSUFFICIENT_DATA"

\* C16: a page fetch that fails is dropped and does not fail the scrape: the
\* pages scrapePages has collected are exactly the pages of the fetches of the
\* finished batches that succeeded, in the order of their URLs, and the call
\* throws only when no URL survived the probe.
C16_FailedFetchDropped ==
  LET finished == IF sPc = "fetch" THEN batchAt - 1 ELSE Len(outcome)
      succeeded == SelectSeq(SubSeq(outcome, 1, finished), IsPage)
  IN  /\ Len(pages) = Len(succeeded)
      /\ \A k \in 1..Len(pages) :
           pages[k].url = succeeded[k].url /\ pages[k].content = succeeded[k].content
      /\ \A k \in 1..(Len(pages) - 1) : pages[k].url < pages[k + 1].url
      /\ sResult.kind = "error" => Len(validUrls) = 0

C16_Witness ==
  /\ ScrapeEnded
  /\ sResult.kind = "result"
  /\ Len(validUrls) = NumCandidates
  /\ \E k \in 1..Len(outcome) : outcome[k].kind = "noWorker"
  /\ \E k \in 1..Len(outcome) : outcome[k].kind = "navigation"
  /\ Len(pages) = 1
  /\ pages[1].url = validUrls[Len(validUrls)]

\* The whitespace-split token set of a text, case kept.
RawWords(content) ==
  IF content = <<>> THEN {""} ELSE {content[k] : k \in 1..Len(content)}

\* scrapeWebsite has deduplicated the pages scrapePages returned.
Deduplicated == sPc \in {"cachePut", "done"} /\ sResult.kind # "cached" /\ Len(pages) > 0

\* C27 as stated: the output of deduplicateContent holds no two pages whose
\* Jaccard similarity over their whitespace-split token sets exceeds 0.8, and
\* the first input page is kept.
C27_NoSimilarPair ==
  Deduplicated =>
    /\ \A i, j \in 1..Len(sResult.pages) :
         i # j =>
           ~RatLess(Rat(8, 10),
                    JaccardSimilarity(RawWords(sResult.pages[i].content),
                                      RawWords(sResult.pages[j].content)))
    /\ sResult.pages[1] = pages[1]

\* C27 amended: the same with the token sets taken from the lower-cased texts.
C27_NoSimilarPairLowerCased ==
  Deduplicated =>
    /\ \A i, j \in 1..Len(sResult.pages) :
         i # j =>
           ~RatLess(Rat(8, 10),
                    JaccardSimilarity(Words(sResult.pages[i].content),
                                      Words(sResult.pages[j].content)))
    /\ sResult.pages[1] = pages[1]

\* C27 witness: a page was dropped as a duplicate of a kept page that is not the
\* last kept one.
C27_Witness ==
  /\ Deduplicated
  /\ Len(pages) = 3
  /\ Len(sResult.pages) = 2
  /\ IsDuplicate(pages[3], pages[1])
  /\ ~IsDuplicate(pages[3], pages[2])

\* The positions of validUrls whose scrapePage call has not returned yet.
FetchesInFlight == {k \in 1..Len(outcome) : outcome[k].kind = "pending"}

\* The batch of scrapePages that the URL at position k belongs to.
BatchOf(k) == (k - 1) \div Concurrency

\* C34: within a scrapeWebsite call at most SCRAPE_CONCURRENCY fetches are in
\* flight at any time, and no fetch of a batch has started while a fetch of an
\* earlier batch has not returned.
C34_BatchesBounded ==
  /\ Cardinality(FetchesInFlight) <= Concurrency
  /\ \A j, k \in 1..Len(outcome) :
       (BatchOf(j) < BatchOf(k) /\ outcome[k].kind # "unstarted")
       => outcome[j].kind \notin {"pending", "unstarted"}

\* C34 witness: the second batch is in flight, after a first batch of
\* SCRAPE_CONCURRENCY fetches.
C34_Witness ==
  /\ sPc = "fetch"
  /\ batchAt = Concurrency + 1
  /\ outcome[batchAt].kind = "pending"
  /\ \A k \in 1..Concurrency : outcome[k].kind \notin {"pending", "unstarted"}

\* ------------------------------------------- scraper over the two-tier cache
\* The getScrapedContent call that scrapeWebsite makes.
ScrapeGet == "g1"

\* cached = await cacheService.getScrapedContent(sanitized): the call is made.
ScrapeGetCall ==
  /\ sPc = "cacheGet"
  /\ GetScrapedContentCall(ScrapeGet)
  /\ sPc' = "cacheWait"
  /\ UNCHANGED <<validUrls, batchAt, outcome, pages, sResult, fetched, metric, cachePut>>
  /\ UNCHANGED <<poolVars, fetchVars, gwVars, phaseVars, evidenceVars>>

\* getScrapedContent has returned: if (cached) return cached; null goes on to
\* discoverPages and the HEAD probes.
ScrapeGetReturn ==
  /\ sPc = "cacheWait"
  /\ gPc[ScrapeGet] = "done"
  /\ IF gResult[ScrapeGet] # 0
       THEN /\ sPc' = "done"
            /\ sResult' = [NoResult EXCEPT !.kind = "cached"]
       ELSE /\ sPc' = "probe"
            /\ UNCHANGED sResult
  /\ UNCHANGED <<validUrls, batchAt, outcome, pages, fetched, metric, cachePut>>
  /\ UNCHANGED <<poolVars, fetchVars, gwVars, cacheVars, phaseVars, evidenceVars>>

\* No scrapeWebsite call has been made yet.
ScrapeIdle == sPc = "idle"

\* scrapeWebsite calls with the cache behind them; before them other callers put
\* and invalidate the entry of the URL.
NextScrapeCached ==
  \/ ScrapeWebsiteCall
  \/ ScrapeGetCall
  \/ ScrapeGetReturn
  \/ ScrapeProbe
  \/ \E k \in 1..NumCandidates : ScrapePageReturn(k)
  \/ ScrapeBatchDone
  \/ ScrapeReturn
  \/ \E w \in SerialWriters : ScrapeIdle /\ CacheScrapedContent(w)
  \/ \E w \in SerialWriters : ScrapeIdle /\ Invalidate(w)
  \/ \E w \in SerialWriters : ScrapeIdle /\ WriteFast(w)
  \/ \E w \in SerialWriters : ScrapeIdle /\ WriteDurable(w)
  \/ GetFast(ScrapeGet)
  \/ GetDurable(ScrapeGet)
  \/ Backfill(ScrapeGet)

SpecScrapeCached == Init /\ [][NextScrapeCached]_vars

\* The cache holds an entry of the URL and no put or invalidate is in progress.
CacheHolds == (FastLive \/ DurableLive) /\ \A w \in Writers : ~WriteInFlight(w)

\* The get ended without an entry in hand after a read of a tier failed.
ReadFailed(g) == dbData[g] = 0 /\ gFailed[g] # "no"

\* C28: a scrapeWebsite call made while the cache holds an unexpired entry of the
\* URL returns the cached result: it probes no URL, asks for no worker, records no
\* scraping_duration_ms, passes nothing to cacheScrapedContent, and has incremented
\* a cache-hit counter. Calls whose cache lookup could not read a tier are left aside.
C28_CacheHitShortCircuits ==
  (/\ sPc \notin {"idle", "cacheGet", "cacheWait"}
   /\ CacheHolds
   /\ ~ReadFailed(ScrapeGet))
  => /\ sPc = "done"
     /\ sResult.kind = "cached"
     /\ validUrls = <<>>
     /\ fetched = {}
     /\ metric = 0
     /\ cachePut = "none"
     /\ gHit[ScrapeGet] \in {"redis", "postgres"}

\* ---------------------------------------- evidence check: the handler steps
\* analyzeBrand has returned brandAnalysis; the handler calls
\* checkEvidenceRefs(brandAnalysis.evidence_refs || [], allowed). An empty list
\* returns at once, a value with a length and no map method throws a TypeError,
\* a list starts one validateUrl per URL.
CheckEvidenceRefsCall ==
  /\ evPc = "idle"
  /\ \E allowed \in SUBSET Domains, c \in Confidences :
       /\ allowedDomains' = allowed
       /\ confidence' = c
       /\ \/ /\ evPc' = "done"                    \* urls.map is not a function
             /\ evError' = "TypeError"
             /\ UNCHANGED <<evUrls, evResults>>
          \/ \E refs \in EvidenceRefs :
               /\ evUrls' = refs
               /\ evResults' = [i \in 1..Len(refs) |-> Pending]
               /\ evPc' = IF Len(refs) = 0 THEN "gate" ELSE "validating"
               /\ UNCHANGED evError
  /\ UNCHANGED <<evidenceCheck, adjustedConfidence, brandSaved, evDetails, headRequests>>
  /\ UNCHANGED <<poolVars, fetchVars, gwVars, cacheVars, phaseVars, scrapeVars>>

\* One validateUrl call of the Promise.all settles; it never rejects. Past the
\* domain check it has called fetch(url, {method: 'HEAD', redirect: 'follow'}).
ValidateUrl(i) ==
  /\ evPc = "validating"
  /\ i \in 1..Len(evUrls)
  /\ evResults[i] = Pending
  /\ \E fo \in FetchOutcomes :
       evResults' = [evResults EXCEPT ![i] = ValidateUrlResult(evUrls[i], allowedDomains, fo)]
  /\ headRequests' = IF AllowedDomainsIncludes(evUrls[i], allowedDomains)
                       THEN headRequests \cup {evUrls[i]}
                       ELSE headRequests
  /\ UNCHANGED <<evPc, evUrls, allowedDomains, evidenceCheck, confidence,
                 adjustedConfidence, brandSaved, evError, evDetails>>
  /\ UNCHANGED <<poolVars, fetchVars, gwVars, cacheVars, phaseVars, scrapeVars>>

\* Promise.all is fulfilled: checkEvidenceRefs builds valid, invalid and the penalty
\* and returns.
CheckEvidenceRefsReturn ==
  /\ evPc = "validating"
  /\ \A i \in 1..Len(evResults) : evResults[i] # Pending
  /\ evidenceCheck' =
       [valid |-> ValidOf(evResults),
        invalid |-> InvalidOf(evResults),
        confidence_penalty |->
          CalculateConfidencePenalty(Len(InvalidOf(evResults)), Len(evUrls))]
  /\ evPc' = "gate"
  /\ UNCHANGED <<evUrls, allowedDomains, evResults, confidence, adjustedConfidence,
                 brandSaved, evError, evDetails, headRequests>>
  /\ UNCHANGED <<poolVars, fetchVars, gwVars, cacheVars, phaseVars, scrapeVars>>

\* adjustedConfidence = Math.max(0, confidence_0_1 - confidence_penalty), then
\* the throw of LowConfidenceError below 0.6.
ConfidenceGate ==
  /\ evPc = "gate"
  /\ LET adjusted ==
           MathMax(Rat(0, 1), RatSub(confidence, evidenceCheck.confidence_penalty))
     IN /\ adjustedConfidence' = adjusted
        /\ IF LowConfidence(adjusted)
             THEN /\ evPc' = "done"
                  /\ evError' = "LOW_CONFIDENCE"
                  /\ evDetails' = [set |-> TRUE, confidence |-> adjusted,
                                   invalidEvidence |-> evidenceCheck.invalid]
             ELSE /\ evPc' = "save"
                  /\ UNCHANGED <<evError, evDetails>>
  /\ UNCHANGED <<evUrls, allowedDomains, evResults, evidenceCheck, confidence, brandSaved, headRequests>>
  /\ UNCHANGED <<poolVars, fetchVars, gwVars, cacheVars, phaseVars, scrapeVars>>

\* brandData = {...brandAnalysis, confidence_0_1: adjustedConfidence, ...};
\* await storageService.saveBrand(run.run_id, brandData); reply.send(...)
SaveBrand ==
  /\ evPc = "save"
  /\ brandSaved' = [saved |-> TRUE, confidence_0_1 |-> adjustedConfidence]
  /\ evPc' = "done"
  /\ evError' = "OK"
  /\ UNCHANGED <<evUrls, allowedDomains, evResults, evidenceCheck, confidence,
                 adjustedConfidence, evDetails, headRequests>>
  /\ UNCHANGED <<poolVars, fetchVars, gwVars, cacheVars, phaseVars, scrapeVars>>

NextEvidence ==
  \/ CheckEvidenceRefsCall
  \/ \E i \in 1..MaxUrls : ValidateUrl(i)
  \/ CheckEvidenceRefsReturn
  \/ ConfidenceGate
  \/ SaveBrand

SpecEvidence == Init /\ [][NextEvidence]_vars

\* ---------------------------------------------- claims on the evidence check
\* checkEvidenceRefs has returned.
EvidenceReturned == evPc \in {"gate", "save"} \/ (evPc = "done" /\ evError # "TypeError")

\* The number of input URLs that validateUrl found invalid.
InvalidCount == Cardinality({i \in 1..Len(evResults) : ~evResults[i].valid})

\* C23: for every list of URLs and every allow-list the penalty returned lies in
\* [0, 0.3] and equals min(invalid/total x 0.3, 0.3), with 0 for the empty list.
C23_PenaltyFormula ==
  EvidenceReturned =>
    LET p == evidenceCheck.confidence_penalty
        total == Len(evUrls)
    IN /\ ~RatLess(p, Rat(0, 1))
       /\ ~RatLess(Rat(3, 10), p)
       /\ IF total = 0 THEN RatEq(p, Rat(0, 1))
          ELSE /\ 3 * InvalidCount <= 3 * total
               /\ p[1] * 10 * total = 3 * InvalidCount * p[2]

\* C23 witness: a list with valid and invalid URLs was checked.
C23_Witness ==
  /\ EvidenceReturned
  /\ InvalidCount > 0
  /\ InvalidCount < Len(evUrls)

\* C24 as stated: the penalty is 0 if and only if the URL list is empty.
C24_ZeroIffEmpty ==
  EvidenceReturned =>
    (RatEq(evidenceCheck.confidence_penalty, Rat(0, 1)) <=> evUrls = <<>>)

\* C24 amended: the penalty is 0 if and only if no input URL is invalid, which
\* includes the empty list.
C24_ZeroIffNoneInvalid ==
  EvidenceReturned =>
    (RatEq(evidenceCheck.confidence_penalty, Rat(0, 1)) <=> InvalidCount = 0)

\* C24 witness: a non-empty list with an invalid URL was checked, and so was one
\* whose URLs are all valid.
C24_Witness ==
  /\ EvidenceReturned
  /\ Len(evUrls) > 1
  /\ InvalidCount = 1

\* C25: with adjusted = max(0, confidence - penalty), a handler that ended below
\* 0.6 threw LOW_CONFIDENCE (422) carrying adjusted and the invalid citations and
\* saved nothing; one that ended at 0.6 or above saved the brand with
\* confidence_0_1 = adjusted and answered with success.
C25_ConfidenceGate ==
  (evPc = "done" /\ evError # "TypeError") =>
    LET adjusted ==
          MathMax(Rat(0, 1), RatSub(confidence, evidenceCheck.confidence_penalty))
    IN /\ RatLess(adjusted, Rat(6, 10)) =>
            /\ evError = "LOW_CONFIDENCE"
            /\ StatusCode(ErrorResponse(evError)) = 422
            /\ evDetails.set
            /\ RatEq(evDetails.confidence, adjusted)
            /\ evDetails.invalidEvidence = InvalidOf(evResults)
            /\ ~brandSaved.saved
       /\ (~IsNaN(adjusted) /\ ~RatLess(adjusted, Rat(6, 10))) =>
            /\ evError = "OK"
            /\ brandSaved.saved
            /\ RatEq(brandSaved.confidence_0_1, adjusted)

\* C25 witness: a penalty brought the confidence down to exactly 0.6 and the
\* brand was saved.
C25_Witness ==
  /\ evPc = "done"
  /\ brandSaved.saved
  /\ RatLess(Rat(0, 1), evidenceCheck.confidence_penalty)
  /\ RatEq(adjustedConfidence, Rat(6, 10))

\* C39: a brand that was saved carries a confidence_0_1 that is a number and at
\* least 0.6, also when the answer had no numeric confidence_0_1.
C39_SavedConfidenceNumeric ==
  brandSaved.saved =>
    /\ ~IsNaN(brandSaved.confidence_0_1)
    /\ ~RatLess(brandSaved.confidence_0_1, Rat(6, 10))

\* C40: every URL for which validateUrl has called fetch parses and has a host
\* that, without a leading www., is in the allow-list.
C40_NoRequestOffList ==
  \A u \in headRequests :
    /\ ExtractDomain(u) # "null"
    /\ ExtractDomain(u) \in allowedDomains

\* C40 witness: of a list with an unparsable URL and a URL of an allowed domain,
\* only the second was requested.
C40_Witness ==
  /\ evPc = "gate"
  /\ \E i \in 1..Len(evUrls) : ExtractDomain(evUrls[i]) = "null"
  /\ headRequests # {}

====
